---------------------------- MODULE Spec2Model ----------------------------
(***************************************************************************)
(* Scan orchestration of cc_azprune.                                       *)
(*                                                                         *)
(* Two entry points run the detector registry:                             *)
(*   - the GUI (app.py): App._start_scan starts a daemon thread that walks *)
(*     ALL_DETECTORS and hands log lines, result batches and the           *)
(*     completion / error signal to the Tk main loop with self.after(0,.); *)
(*     the main loop runs those callbacks, the pending after(500, ...)     *)
(*     timers and the user's clicks one at a time, in an order the code    *)
(*     does not control;                                                   *)
(*   - AzureScanner.scan (scanner.py): the same walk, synchronous, with a  *)
(*     local aggregate and a progress callback.                            *)
(* mode says which entry point a behaviour exercises. The functions the    *)
(* records come from and are shown with (the detectors, the cost           *)
(* estimates, format_cost, the resource catalog) are modelled on their    *)
(* own: a behaviour of these modes is one call of one function.            *)
(***************************************************************************)
EXTENDS Integers, Sequences, FiniteSets, TLC

\* ----------------------------------------------------------------- bounds
\* Length of the registry prefix that is walked (ALL_DETECTORS has 22 entries).
NumDetectors == 2
\* Worker threads one session may start.
MaxScans == 2
\* Rows one detector query returns at most.
MaxRows == 1
\* Callbacks that may wait in the Tk event queue at once.
MaxQueue == 2
\* Pending after(500, self._start_scan) timers at once.
MaxTimers == 1

Detectors == 1..NumDetectors
Scans == 1..MaxScans
\* The subscriptions list_subscriptions returns (App._subscriptions).
Subs == {"sub-a", "sub-b"}

VARIABLES
    mode,               \* "gui": App; "cli": a direct AzureScanner.scan call;
                        \* or the function a behaviour calls on its own
    auth,               \* App._start_auth: "pending", "ok", "error"
    subscription_id,    \* scanner.subscription_id ("": none yet)
    is_scanning,        \* App._is_scanning
    scan_cancelled,     \* App._scan_cancelled
    action_btn,         \* text of App.action_btn ("hidden" until first packed)
    export_btn,         \* state of App.export_btn
    last_log,           \* last scan-level line of the activity log
    resources,          \* grid.resources
    filtered_resources, \* grid.filtered_resources
    queue,              \* callbacks handed to the main loop with after(0, ...)
    timers,             \* pending after(500, self._start_scan) callbacks
    nscans,             \* worker threads started so far
    pc,                 \* per worker: "idle", "loop", "call", "done", "failed"
    idx,                \* per worker: position in ALL_DETECTORS
    out,                \* per worker and detector: what the call produced
    sent,               \* per worker: the callbacks it has handed over, in order
    cancel_at,          \* per worker: where it stood when Cancel was clicked
    queried,            \* per worker and detector: the subscription its query ran
                        \* against ("": no query yet)
    scan_pc,            \* AzureScanner.scan: "idle", "loop", "call", "done", "raised"
    scan_idx,           \* AzureScanner.scan: position in ALL_DETECTORS
    all_resources,      \* AzureScanner.scan: local aggregate
    scan_out,           \* AzureScanner.scan: what each detector call produced
    scan_msgs,          \* AzureScanner.scan: update_progress messages, in order
    rg_client,          \* AzureScanner.scan: scanner._rg_client is set (authenticate() succeeded)
    cost,               \* format_cost: the argument, in thousandths of a dollar
    cost_display,       \* format_cost: the returned string ("" before the call)
    cost_rendered,      \* format_cost: which format spec was used, and the number it printed
    resource_type,      \* get_resource_info: the argument
    info,               \* get_resource_info: the returned record (NoInfo before the call)
    detector,           \* a detector call: the function called ("": none)
    results,            \* a detector call: the raw rows query_func returns
    detected,           \* a detector call: the list it returns
    det_pc,             \* a detector call: "idle", "call", "returned", "raised"
    tenant_id,          \* scanner.tenant_id (None until authenticate() has set it)
    delivered,          \* the records handed to grid.add_resources so far, in order
    clicks,             \* the Open and Copy buttons clicked so far, in order
    browser,            \* the URLs webbrowser.open was called with, in order
    clipboard,          \* the text on the clipboard
    csv_rows,           \* export_to_csv: whether it was called, the data rows written
    xlsx_rows,          \* export_to_excel: whether it was called, the data rows written
    risk_filter,        \* grid.risk_filter (None: all resources)
    search_text,        \* grid._search_text
    sort_column,        \* grid.sort_column ("": None)
    sort_reverse,       \* grid.sort_reverse
    estimator,          \* a cost estimate call: the function called ("": none)
    sku_arg,            \* a cost estimate call: the SKU or tier string passed
    number_arg,         \* a cost estimate call: the number passed (0: none)
    estimated           \* a cost estimate call: whether it returned, and the cost

guiVars == <<auth, subscription_id, is_scanning, scan_cancelled, action_btn,
             export_btn, last_log, resources, filtered_resources, queue,
             timers, nscans, pc, idx, out, sent, cancel_at, queried>>
cliVars == <<scan_pc, scan_idx, all_resources, scan_out, scan_msgs, rg_client>>
detVars == <<detector, results, detected, det_pc>>
filterVars == <<risk_filter, search_text, sort_column, sort_reverse>>
gridVars == <<tenant_id, delivered, clicks, browser, clipboard, csv_rows, xlsx_rows,
              filterVars>>
lookupVars == <<estimator, sku_arg, number_arg, estimated>>
fnVars == <<cost, cost_display, cost_rendered, resource_type, info, detVars,
            gridVars, lookupVars>>
vars == <<mode, guiVars, cliVars, fnVars>>

\* ------------------------------------------------------------ data model
\* The n records detector i builds from the n rows of its query, in scan s
\* (s = 0: the direct AzureScanner.scan call).
Rows(s, i, n) == [k \in 1..n |-> [scan |-> s, det |-> i, row |-> k]]

\* What a detector call has produced: not yet run, raised, a list of n
\* records taken over by the loop, or a list of n records dropped because the
\* loop found the cancel flag set on return.
Pending == [kind |-> "pending", n |-> 0]
Raised == [kind |-> "raise", n |-> 0]
Returned(n) == [kind |-> "rows", n |-> n]
Dropped(n) == [kind |-> "dropped", n |-> n]

\* A callback handed to the main loop.
Event(kind, s, i, n) == [kind |-> kind, scan |-> s, det |-> i, n |-> n]

\* What a detector call can do: raise, return None, or return a list.
RetKinds == {"raise", "none", "list"}

RECURSIVE Concat(_, _, _)
\* Concatenation, in registry order, of the outputs of detectors 1..k that
\* the loop took over (o: the outcomes of scan s).
Concat(s, o, k) ==
    IF k = 0 THEN <<>>
    ELSE Concat(s, o, k - 1) \o
         (IF o[k].kind = "rows" THEN Rows(s, k, o[k].n) ELSE <<>>)

\* ------------------------------------------------------------------ Init
\* The App before authentication: nothing scanned, nothing shown.
AppInit ==
    /\ auth = "pending"
    /\ subscription_id = ""
    /\ is_scanning = FALSE
    /\ scan_cancelled = FALSE
    /\ action_btn = "hidden"
    /\ export_btn = "disabled"
    /\ last_log = "none"
    /\ resources = <<>>
    /\ filtered_resources = <<>>
    /\ queue = <<>>
    /\ timers = 0
    /\ nscans = 0
    /\ pc = [s \in Scans |-> "idle"]
    /\ idx = [s \in Scans |-> 1]
    /\ out = [s \in Scans |-> [i \in Detectors |-> Pending]]
    /\ sent = [s \in Scans |-> <<>>]
    /\ cancel_at = [s \in Scans |-> [idx |-> 0, inflight |-> FALSE]]
    /\ queried = [s \in Scans |-> [i \in Detectors |-> ""]]

\* AzureScanner.scan has not been called.
ScannerInit ==
    /\ scan_pc = "idle"
    /\ scan_idx = 1
    /\ all_resources = <<>>
    /\ scan_out = [i \in Detectors |-> Pending]
    /\ scan_msgs = <<>>

\* What get_resource_info has returned before it is called: nothing.
NoInfo ==
    [friendly_name |-> <<>>, risk_level |-> "", description |-> "",
     why_orphaned |-> "", safe_to_delete |-> "", check_before_delete |-> "",
     deletion_impact |-> "", recovery_info |-> ""]

\* format_cost has not been called.
FormatCostIdle ==
    /\ cost = 0
    /\ cost_display = ""
    /\ cost_rendered = [form |-> "none", value |-> 0]

\* get_resource_info has not been called.
ResourceInfoIdle ==
    /\ resource_type = <<>>
    /\ info = NoInfo

\* No detector has been called on its own.
DetectIdle ==
    /\ detector = ""
    /\ results = <<>>
    /\ detected = <<>>
    /\ det_pc = "idle"

\* What was on the clipboard before the application touched it.
ClipboardBefore == <<"b", "e", "f", "o", "r", "e">>

\* ResourceGrid.__init__: no filter, no search text, no sort column.
FilterInit ==
    /\ risk_filter = [t |-> "null"]
    /\ search_text = <<>>
    /\ sort_column = ""
    /\ sort_reverse = FALSE

\* The grid's buttons and the exports have not been used.
GridIdle ==
    /\ FilterInit
    /\ tenant_id = [t |-> "null"]
    /\ delivered = <<>>
    /\ clicks = <<>>
    /\ browser = <<>>
    /\ clipboard = ClipboardBefore
    /\ csv_rows = [written |-> FALSE, rows |-> <<>>]
    /\ xlsx_rows = [written |-> FALSE, rows |-> <<>>]

\* No cost estimate has been called on its own.
LookupIdle ==
    /\ estimator = ""
    /\ sku_arg = <<>>
    /\ number_arg = 0
    /\ estimated = [done |-> FALSE, cost |-> 0]

\* None of the functions modelled on their own has been called.
FnIdle ==
    /\ FormatCostIdle
    /\ ResourceInfoIdle
    /\ DetectIdle
    /\ GridIdle
    /\ LookupIdle

\* A session of the App, or one direct call of AzureScanner.scan made
\* before or after authenticate() has set scanner._rg_client.
Init ==
    /\ mode \in {"gui", "cli"}
    /\ AppInit
    /\ ScannerInit
    /\ rg_client \in (IF mode = "cli" THEN BOOLEAN ELSE {TRUE})
    /\ FnIdle

\* ------------------------------------------------------- ResourceGrid
\* ResourceGrid.clear
GridClear ==
    /\ resources' = <<>>
    /\ filtered_resources' = <<>>

\* ResourceGrid.add_resources (no sort column chosen)
GridAddResources(new) ==
    /\ resources' = resources \o new
    /\ filtered_resources' = resources \o new

\* ------------------------------------------------------- App, main loop
\* App._start_scan past its guard: flags, grid, buttons, log line, thread.
StartScanBody ==
    /\ nscans < MaxScans
    /\ is_scanning' = TRUE
    /\ scan_cancelled' = FALSE
    /\ GridClear
    /\ action_btn' = "Cancel"
    /\ export_btn' = "disabled"
    /\ last_log' = "starting"
    /\ nscans' = nscans + 1
    /\ pc' = [pc EXCEPT ![nscans + 1] = "loop"]
    /\ UNCHANGED <<auth, subscription_id, queue, idx, out, sent, cancel_at, queried>>

\* App._start_scan
StartScan ==
    IF is_scanning
    THEN UNCHANGED <<auth, subscription_id, is_scanning, scan_cancelled,
                     action_btn, export_btn, last_log, resources,
                     filtered_resources, queue, nscans, pc, idx, out, sent,
                     cancel_at, queried>>
    ELSE StartScanBody

\* The Cancel branch of App._on_action_btn.
CancelBody ==
    /\ scan_cancelled' = TRUE
    /\ last_log' = "cancelled"
    /\ is_scanning' = FALSE
    /\ action_btn' = "Rescan"
    /\ cancel_at' = [s \in Scans |->
            IF (s = nscans \/ pc[s] \in {"loop", "call"}) /\ cancel_at[s].idx = 0
            THEN [idx |-> idx[s], inflight |-> pc[s] = "call"]
            ELSE cancel_at[s]]
    /\ UNCHANGED <<auth, subscription_id, export_btn, resources,
                   filtered_resources, queue, nscans, pc, idx, out, sent,
                   queried>>

\* App._start_auth / App._auth_success: the scanner got its default
\* subscription and the first scan is scheduled.
AuthSuccess ==
    /\ mode = "gui"
    /\ auth = "pending"
    /\ auth' = "ok"
    /\ subscription_id' = "sub-a"
    /\ timers' = timers + 1
    /\ UNCHANGED <<mode, is_scanning, scan_cancelled, action_btn, export_btn,
                   last_log, resources, filtered_resources, queue, nscans,
                   pc, idx, out, sent, cancel_at, queried, cliVars, fnVars>>

\* App._auth_error
AuthError ==
    /\ mode = "gui"
    /\ auth = "pending"
    /\ auth' = "error"
    /\ UNCHANGED <<mode, subscription_id, is_scanning, scan_cancelled,
                   action_btn, export_btn, last_log, resources,
                   filtered_resources, queue, timers, nscans, pc, idx, out,
                   sent, cancel_at, queried, cliVars, fnVars>>

\* A pending after(500, self._start_scan) fires.
TimerStartScan ==
    /\ mode = "gui"
    /\ timers > 0
    /\ timers' = timers - 1
    /\ StartScan
    /\ UNCHANGED <<mode, cliVars, fnVars>>

\* App._on_action_btn: Cancel while scanning, Rescan / Retry otherwise.
OnActionBtn ==
    /\ mode = "gui"
    /\ action_btn # "hidden"
    /\ IF is_scanning THEN CancelBody ELSE StartScanBody
    /\ UNCHANGED <<mode, timers, cliVars, fnVars>>

\* Mutant of OnSubscriptionChange: the _is_scanning check is left out.
OnSubscriptionChangeWhileScanning(selected) ==
    /\ mode = "gui"
    /\ auth = "ok"
    /\ IF selected = subscription_id
       THEN UNCHANGED guiVars
       ELSE /\ timers < MaxTimers
            /\ subscription_id' = selected
            /\ GridClear
            /\ export_btn' = "disabled"
            /\ timers' = timers + 1
            /\ UNCHANGED <<auth, is_scanning, scan_cancelled, action_btn,
                           last_log, queue, nscans, pc, idx, out, sent,
                           cancel_at, queried>>
    /\ UNCHANGED <<mode, cliVars, fnVars>>

\* App._on_subscription_change. scanner.set_subscription assigns the id, the
\* name and the tenant id of one entry of App._subscriptions together;
\* subscription_id stands for the entry.
OnSubscriptionChange(selected) ==
    /\ mode = "gui"
    /\ auth = "ok"
    /\ IF is_scanning \/ selected = subscription_id
       THEN UNCHANGED guiVars
       ELSE /\ timers < MaxTimers
            /\ subscription_id' = selected
            /\ GridClear
            /\ export_btn' = "disabled"
            /\ timers' = timers + 1
            /\ UNCHANGED <<auth, is_scanning, scan_cancelled, action_btn,
                           last_log, queue, nscans, pc, idx, out, sent,
                           cancel_at, queried>>
    /\ UNCHANGED <<mode, cliVars, fnVars>>

\* Mutant of AddResults: the batch replaces the grid's records
\* (grid.set_resources) instead of being appended to them.
AddResultsReplace(new) ==
    /\ resources' = new
    /\ filtered_resources' = new
    /\ UNCHANGED <<is_scanning, action_btn, export_btn, last_log>>

\* App._add_results
AddResults(new) ==
    /\ GridAddResources(new)
    /\ UNCHANGED <<is_scanning, action_btn, export_btn, last_log>>

\* Mutant of ScanComplete: the scanning flag is left set.
ScanCompleteKeepsFlag ==
    /\ last_log' = "complete"
    /\ action_btn' = "Rescan"
    /\ export_btn' = IF Len(resources) > 0 THEN "normal" ELSE export_btn
    /\ UNCHANGED <<is_scanning, resources, filtered_resources>>

\* App._scan_complete
ScanComplete ==
    /\ is_scanning' = FALSE
    /\ last_log' = "complete"
    /\ action_btn' = "Rescan"
    /\ export_btn' = IF Len(resources) > 0 THEN "normal" ELSE export_btn
    /\ UNCHANGED <<resources, filtered_resources>>

\* Mutant of ScanError: the handler resets the grid.
ScanErrorClearsGrid ==
    /\ is_scanning' = FALSE
    /\ last_log' = "failed"
    /\ action_btn' = "Retry"
    /\ GridClear
    /\ UNCHANGED export_btn

\* App._scan_error
ScanError ==
    /\ is_scanning' = FALSE
    /\ last_log' = "failed"
    /\ action_btn' = "Retry"
    /\ UNCHANGED <<export_btn, resources, filtered_resources>>

\* The main loop runs the oldest callback handed over with after(0, ...).
ProcessEvent ==
    /\ mode = "gui"
    /\ queue # <<>>
    /\ LET e == Head(queue) IN
         CASE e.kind = "add" -> AddResults(Rows(e.scan, e.det, e.n))
           [] e.kind = "complete" -> ScanComplete
           [] e.kind = "error" -> ScanError
    /\ queue' = Tail(queue)
    /\ UNCHANGED <<mode, auth, subscription_id, scan_cancelled, timers,
                   nscans, pc, idx, out, sent, cancel_at, queried, cliVars, fnVars>>

\* ------------------------------------------------ App, the scan thread
\* Callbacks that change the application's state when the main loop runs
\* them; the others only add a line to the activity log (App._log).
IsSignal(e) == e.kind \in {"add", "complete", "error"}

\* self.after(0, ...) called by worker s for each of the callbacks es, in
\* order. The activity log's per-detector lines are not kept: a callback that
\* only logs is recorded as handed over and is not queued.
Post(s, es) ==
    /\ Len(queue) + Len(SelectSeq(es, IsSignal)) <= MaxQueue
    /\ queue' = queue \o SelectSeq(es, IsSignal)
    /\ sent' = [sent EXCEPT ![s] = sent[s] \o es]

\* Mutant of ProgressEvents: the progress line is not handed over.
ProgressEventsNone(s, i) == <<>>

\* The "Scanning <name>..." line handed over before detector i is called.
ProgressEvents(s, i) == <<Event("log_scanning", s, i, 0)>>

\* The "Error scanning <name>" line handed over when detector i raised.
ErrorEvents(s, i) == <<Event("log_error", s, i, 0)>>

\* Mutant of ResultEvents: the "if results:" test is missing.
ResultEventsAlways(s, i, n) ==
    <<Event("log_found", s, i, n), Event("add", s, i, n)>>

\* if results: the "Found <c> orphaned <name>" line and the batch itself.
ResultEvents(s, i, n) ==
    IF n > 0
    THEN <<Event("log_found", s, i, n), Event("add", s, i, n)>>
    ELSE <<>>

\* Head of the for loop of App._start_scan.scan: the cancel check, the
\* "Scanning ..." line and the detector call, whose query (the detector's
\* first statement) is sent for scanner.subscription_id as it is then; past
\* the last entry, the completion signal.
WorkerLoop(s) ==
    /\ mode = "gui"
    /\ pc[s] = "loop"
    /\ IF idx[s] > NumDetectors
       THEN /\ Post(s, <<Event("complete", s, 0, 0)>>)
            /\ pc' = [pc EXCEPT ![s] = "done"]
            /\ UNCHANGED queried
       ELSE IF scan_cancelled
       THEN /\ pc' = [pc EXCEPT ![s] = "done"]
            /\ UNCHANGED <<queue, sent, queried>>
       ELSE /\ Post(s, ProgressEvents(s, idx[s]))
            /\ pc' = [pc EXCEPT ![s] = "call"]
            /\ queried' = [queried EXCEPT ![s][idx[s]] = subscription_id]
    /\ UNCHANGED <<mode, auth, subscription_id, is_scanning, scan_cancelled,
                   action_btn, export_btn, last_log, resources,
                   filtered_resources, timers, nscans, idx, out, cancel_at,
                   cliVars, fnVars>>

\* Mutant of WorkerRaised: break instead of continue.
WorkerRaisedBreak(s) ==
    /\ Post(s, ErrorEvents(s, idx[s]))
    /\ out' = [out EXCEPT ![s][idx[s]] = Raised]
    /\ idx' = [idx EXCEPT ![s] = NumDetectors + 1]
    /\ pc' = [pc EXCEPT ![s] = "loop"]

\* Mutant of WorkerRaised: no try around the detector call, its exception
\* reaches the outer handler.
WorkerRaisedEscapes(s) ==
    /\ Post(s, <<Event("error", s, 0, 0)>>)
    /\ out' = [out EXCEPT ![s][idx[s]] = Raised]
    /\ pc' = [pc EXCEPT ![s] = "failed"]
    /\ UNCHANGED idx

\* except Exception around the detector call: log the error, continue with
\* the next registry entry.
WorkerRaised(s) ==
    /\ Post(s, ErrorEvents(s, idx[s]))
    /\ out' = [out EXCEPT ![s][idx[s]] = Raised]
    /\ idx' = [idx EXCEPT ![s] = idx[s] + 1]
    /\ pc' = [pc EXCEPT ![s] = "loop"]

\* The detector returned n records and the cancel flag is found set: return.
WorkerDropped(s, n) ==
    /\ out' = [out EXCEPT ![s][idx[s]] = Dropped(n)]
    /\ pc' = [pc EXCEPT ![s] = "done"]
    /\ UNCHANGED <<queue, sent, idx>>

\* Mutant of WorkerTakeOver: the loop stays on the same registry entry.
WorkerTakeOverStay(s, n) ==
    /\ Post(s, ResultEvents(s, idx[s], n))
    /\ out' = [out EXCEPT ![s][idx[s]] = Returned(n)]
    /\ pc' = [pc EXCEPT ![s] = "loop"]
    /\ UNCHANGED idx

\* The detector returned n records and the scan is not cancelled: hand a
\* non-empty batch over, go on with the next registry entry.
WorkerTakeOver(s, n) ==
    /\ Post(s, ResultEvents(s, idx[s], n))
    /\ out' = [out EXCEPT ![s][idx[s]] = Returned(n)]
    /\ idx' = [idx EXCEPT ![s] = idx[s] + 1]
    /\ pc' = [pc EXCEPT ![s] = "loop"]

\* The detector call of App._start_scan.scan comes back: it raised, or it
\* returned a list (None counts as the empty list).
WorkerReturn(s) ==
    /\ mode = "gui"
    /\ pc[s] = "call"
    /\ \E kind \in RetKinds, n \in 0..MaxRows :
         /\ kind # "list" => n = 0
         /\ IF kind = "raise" THEN WorkerRaised(s)
            ELSE IF scan_cancelled THEN WorkerDropped(s, n)
            ELSE WorkerTakeOver(s, n)
    /\ UNCHANGED <<mode, auth, subscription_id, is_scanning, scan_cancelled,
                   action_btn, export_btn, last_log, resources,
                   filtered_resources, timers, nscans, cancel_at, queried, cliVars, fnVars>>

\* An exception of the driver's own statements escapes to the outer handler
\* of App._start_scan.scan, which hands over the error signal: the import of
\* the registry (before the first cancel check), the self.after call that
\* follows a cancel check found clear, or the self.after call that hands
\* over the completion signal.
WorkerDriverFail(s) ==
    /\ mode = "gui"
    /\ pc[s] = "loop"
    /\ idx[s] = 1 \/ idx[s] > NumDetectors \/ ~scan_cancelled
    /\ Post(s, <<Event("error", s, 0, 0)>>)
    /\ pc' = [pc EXCEPT ![s] = "failed"]
    /\ UNCHANGED <<mode, auth, subscription_id, is_scanning, scan_cancelled,
                   action_btn, export_btn, last_log, resources,
                   filtered_resources, timers, nscans, idx, out, cancel_at, queried,
                   cliVars, fnVars>>

\* --------------------------------------------------- AzureScanner.scan
\* AzureScanner.scan is called.
ScanCall ==
    /\ mode = "cli"
    /\ scan_pc = "idle"
    /\ scan_pc' = "loop"
    /\ UNCHANGED <<mode, guiVars, fnVars, rg_client, scan_idx, all_resources, scan_out, scan_msgs>>

\* Head of the for loop of AzureScanner.scan: update_progress, then the
\* detector call; past the last entry, the completion message and return.
ScanLoop ==
    /\ mode = "cli"
    /\ scan_pc = "loop"
    /\ IF scan_idx > NumDetectors
       THEN /\ scan_msgs' = Append(scan_msgs, Event("complete", 0, 0, Len(all_resources)))
            /\ scan_pc' = "done"
       ELSE /\ scan_msgs' = Append(scan_msgs, Event("log_scanning", 0, scan_idx, 0))
            /\ scan_pc' = "call"
    /\ UNCHANGED <<mode, guiVars, fnVars, rg_client, scan_idx, all_resources, scan_out>>

\* The detector call of AzureScanner.scan comes back.
ScanReturn ==
    /\ mode = "cli"
    /\ scan_pc = "call"
    /\ \E kind \in RetKinds, n \in 0..MaxRows :
         /\ kind # "list" => n = 0
         /\ ~rg_client => kind = "raise"
         /\ IF kind = "raise"
            THEN /\ scan_out' = [scan_out EXCEPT ![scan_idx] = Raised]
                 /\ UNCHANGED all_resources
            ELSE /\ scan_out' = [scan_out EXCEPT ![scan_idx] = Returned(n)]
                 /\ all_resources' = all_resources \o Rows(0, scan_idx, n)
    /\ scan_idx' = scan_idx + 1
    /\ scan_pc' = "loop"
    /\ UNCHANGED <<mode, guiVars, fnVars, rg_client, scan_msgs>>

\* The caller's progress_callback raises: the exception escapes the loop
\* and AzureScanner.scan re-raises it.
ScanCallbackRaise ==
    /\ mode = "cli"
    /\ scan_pc = "loop"
    /\ scan_pc' = "raised"
    /\ UNCHANGED <<mode, guiVars, fnVars, rg_client, scan_idx, all_resources, scan_out, scan_msgs>>

\* ------------------------------------------------------ specification
Next ==
    \/ AuthSuccess
    \/ AuthError
    \/ TimerStartScan
    \/ OnActionBtn
    \/ \E selected \in Subs : OnSubscriptionChange(selected)
    \/ ProcessEvent
    \/ \E s \in Scans : WorkerLoop(s)
    \/ \E s \in Scans : WorkerReturn(s)
    \/ \E s \in Scans : WorkerDriverFail(s)
    \/ ScanCall
    \/ ScanLoop
    \/ ScanReturn
    \/ ScanCallbackRaise

Spec == Init /\ [][Next]_vars

\* The scheduling the liveness of a scan rests on: every worker thread keeps
\* running (its loop statements are executed, and each detector call, whose
\* query returns or raises, comes back), and the Tk main loop keeps running
\* the callbacks handed to it.
Fairness ==
    /\ WF_vars(ProcessEvent)
    /\ \A s \in Scans : WF_vars(WorkerLoop(s)) /\ WF_vars(WorkerReturn(s))
    /\ WF_vars(ScanLoop)
    /\ WF_vars(ScanReturn)

SpecLive == Init /\ [][Next]_vars /\ Fairness

\* ------------------------------------------------------------- helpers
Range(f) == {f[k] : k \in DOMAIN f}

\* A worker thread that has not returned yet.
Live(s) == pc[s] \in {"loop", "call"}

\* The detectors worker s has called so far.
Invoked(s) ==
    {i \in Detectors : out[s][i].kind # "pending" \/ (pc[s] = "call" /\ idx[s] = i)}

\* How often worker s (or AzureScanner.scan, through msgs) issued a message
\* of the given kind for detector i.
Count(msgs, kind, i) ==
    Cardinality({k \in DOMAIN msgs : msgs[k].kind = kind /\ msgs[k].det = i})

IsBatch(e) == e.kind = "add"

RECURSIVE Batches(_)
\* The records of the result batches in a sequence of callbacks, in order.
Batches(es) ==
    IF es = <<>> THEN <<>>
    ELSE (IF IsBatch(Head(es)) THEN Rows(Head(es).scan, Head(es).det, Head(es).n)
          ELSE <<>>) \o Batches(Tail(es))

\* Cancel has been clicked during scan s.
CancelRequested(s) == cancel_at[s].idx > 0

\* No scan of the session has been cancelled.
NoCancel == \A s \in Scans : ~CancelRequested(s)

\* s1 is a prefix of s2.
IsPrefix(s1, s2) ==
    /\ Len(s1) <= Len(s2)
    /\ \A k \in 1..Len(s1) : s1[k] = s2[k]

\* The state of the scan state machine, read off the activity log's last
\* scan-level line (and _is_scanning, which is TRUE exactly while Running).
ScanStatus ==
    CASE last_log = "none" -> "Idle"
      [] last_log = "starting" -> "Running"
      [] last_log = "complete" -> "Completed"
      [] last_log = "cancelled" -> "Cancelled"
      [] last_log = "failed" -> "Failed"

\* ------------------------------------------------------------------ C1
\* C1: a detector that raises contributes no record and the loop goes on with
\* the next registry entry; when a scan completes, what it aggregated is the
\* concatenation, in registry order, of the outputs of the detectors that
\* did not raise. Stated for AzureScanner.scan (all_resources), for every
\* GUI worker (the batches it handed over), and for the grid of a session in
\* which no scan was cancelled (grid.resources when the scan completes, until
\* a subscription switch empties the grid for the scan it schedules).
C1_RaisingDetectorIsolated ==
    /\ scan_pc = "done" =>
         /\ \A i \in Detectors : scan_out[i].kind \in {"raise", "rows"}
         /\ all_resources = Concat(0, scan_out, NumDetectors)
    /\ \A s \in Scans :
         Count(sent[s], "complete", 0) > 0 =>
            /\ \A i \in Detectors : out[s][i].kind \in {"raise", "rows"}
            /\ Batches(sent[s]) = Concat(s, out[s], NumDetectors)
    /\ \A r \in Range(resources) : out[r.scan][r.det].kind = "rows"
    /\ (NoCancel /\ last_log = "complete") =>
         \/ resources = Concat(nscans, out[nscans], NumDetectors)
         \/ timers > 0 /\ resources = <<>>

\* C1 witness: the first detector raised, the second returned a record, the
\* scan completed and the grid shows exactly that record.
C1_Witness ==
    /\ last_log = "complete"
    /\ NoCancel
    /\ out[1][1] = Raised
    /\ out[1][NumDetectors] = Returned(1)
    /\ resources = Rows(1, NumDetectors, 1)

\* ------------------------------------------------------------------ C2
\* C2: a scan cancelled when k detectors had completed shows the records of
\* detectors 1..k only: no record of a later detector of that scan, the one
\* in flight at the cancel included, ever reaches the grid, and once the
\* cancelled scan's worker and callbacks are through, the grid holds exactly
\* what detectors 1..k handed over.
C2_CancelKeepsCompletedOnly ==
    \A s \in Scans :
        CancelRequested(s) =>
          /\ \A r \in Range(resources) : r.scan = s => r.det < cancel_at[s].idx
          /\ (/\ s = nscans
              /\ last_log = "cancelled"
              /\ ~Live(s)
              /\ \A e \in Range(queue) : e.scan # s)
             => resources = Concat(s, out[s], cancel_at[s].idx - 1)

\* ------------------------------------------------------------------ C3
\* C3: a rescan replaces the grid's content: when a scan has completed, every
\* record shown was produced by that scan's own detector calls (so a scan
\* whose detectors all return nothing ends with an empty grid).
C3_RescanReplaces ==
    last_log = "complete" => \A r \in Range(resources) : r.scan = nscans

\* ------------------------------------------------------------------ C4
\* C4: one background worker at a time: never two workers inside a detector
\* call, never records of two workers in the same grid content.
C4_SingleWorker ==
    /\ Cardinality({s \in Scans : pc[s] = "call"}) <= 1
    /\ Cardinality({r.scan : r \in Range(resources)}) <= 1

\* ------------------------------------------------------------------ C5
\* C5: once Cancel has been clicked for a scan, its worker calls no detector
\* other than the one that was in flight at the click.
C5_NoCallAfterCancel ==
    \A s \in Scans :
        CancelRequested(s) =>
            Invoked(s) \subseteq
                1..(IF cancel_at[s].inflight
                    THEN cancel_at[s].idx ELSE cancel_at[s].idx - 1)

\* ------------------------------------------------------------------ C6
\* The transitions the scan state machine allows.
AllowedTransitions ==
    {<<"Idle", "Running">>,
     <<"Running", "Completed">>, <<"Running", "Cancelled">>, <<"Running", "Failed">>,
     <<"Completed", "Running">>, <<"Cancelled", "Running">>, <<"Failed", "Running">>}

\* C6: the scan status changes only along Idle -> Running, Running ->
\* Completed / Cancelled / Failed and Completed / Cancelled / Failed ->
\* Running; in particular no completion or error callback moves a Cancelled
\* scan to Completed or Failed, and a start request while Running changes
\* nothing.
C6_StatusTransitions ==
    [][/\ ScanStatus' # ScanStatus => <<ScanStatus, ScanStatus'>> \in AllowedTransitions
       /\ (ScanStatus = "Running" /\ timers' = timers - 1) =>
             (nscans' = nscans /\ ScanStatus' = "Running")]_vars

\* ------------------------------------------------------------------ C7
\* C7: the error signal, and with it the Failed state, comes only from a
\* worker whose driver raised; a detector that raised is logged and passed
\* over (the loop has moved beyond it), and the worker hands over no error
\* signal for it. AzureScanner.scan likewise returns normally whatever its
\* detectors raised.
C7_FailedOnlyByDriver ==
    /\ last_log = "failed" => \E s \in Scans : pc[s] = "failed"
    /\ \A e \in Range(queue) : e.kind = "error" => pc[e.scan] = "failed"
    /\ \A s \in Scans :
         /\ Count(sent[s], "error", 0) > 0 => pc[s] = "failed"
         /\ \A i \in Detectors :
              out[s][i].kind = "raise" =>
                 /\ idx[s] > i
                 /\ Count(sent[s], "error", 0) <= (IF pc[s] = "failed" THEN 1 ELSE 0)
    /\ \A i \in Detectors :
         scan_out[i].kind = "raise" => (scan_idx > i /\ scan_pc # "idle")

\* C7 witness: a scan in which the first detector raised ran on, and ended
\* Failed only when its driver raised afterwards.
C7_Witness ==
    /\ last_log = "failed"
    /\ pc[1] = "failed"
    /\ out[1][1] = Raised
    /\ idx[1] > 1

\* ------------------------------------------------------------------ C8
\* C8: the Cancel click and the scan-error callback leave grid.resources and
\* grid.filtered_resources as they are, and afterwards every record shown
\* stays shown (later batches are appended) until _start_scan or a
\* subscription switch, which empties the grid for the scan it schedules.
C8_PartialResultsKept ==
    [][/\ (is_scanning /\ last_log' = "cancelled") =>
             UNCHANGED <<resources, filtered_resources>>
       /\ (queue # <<>> /\ Head(queue).kind = "error" /\ queue' = Tail(queue)) =>
             UNCHANGED <<resources, filtered_resources>>
       /\ (nscans' = nscans /\ subscription_id' = subscription_id) =>
             IsPrefix(resources, resources')]_vars

\* C8 witness: a scan has failed and the records it had streamed are shown.
C8_Witness ==
    /\ last_log = "failed"
    /\ Len(resources) > 0
    /\ action_btn = "Retry"

\* ------------------------------------------------------------------ C9
RECURSIVE Handovers(_, _, _)
\* The result batches worker s is due to have handed over for detectors
\* 1..k: one for each list of at least one record that the loop took over.
Handovers(s, o, k) ==
    IF k = 0 THEN <<>>
    ELSE Handovers(s, o, k - 1) \o
         (IF o[k].kind = "rows" /\ o[k].n > 0
          THEN <<Event("add", s, k, o[k].n)>> ELSE <<>>)

IsBatchOrEnd(e) == e.kind \in {"add", "complete"}

\* C9 as stated: every detector that returned at least one record has had
\* its batch handed over exactly once, and no other detector has.
C9_BatchPerNonEmptyResult ==
    \A s \in Scans : \A i \in Detectors :
        Count(sent[s], "add", i) =
            (IF out[s][i].kind \in {"rows", "dropped"} /\ out[s][i].n > 0
             THEN 1 ELSE 0)

\* C9 amended: the batches a worker has handed over are, in registry order,
\* exactly one per detector that returned at least one record while the
\* cancel flag was not set on its return, each carrying that detector's
\* records; none for a detector that returned nothing or raised; and the
\* completion signal, if any, comes after all of them.
C9_BatchPerTakenOverResult ==
    \A s \in Scans :
        SelectSeq(sent[s], IsBatchOrEnd) =
            Handovers(s, out[s], NumDetectors) \o
            (IF pc[s] = "done" /\ idx[s] > NumDetectors
             THEN <<Event("complete", s, 0, 0)>> ELSE <<>>)

\* C9 witness: a completed worker whose first detector returned nothing and
\* whose last detector's batch was handed over.
C9_Witness ==
    /\ pc[1] = "done"
    /\ out[1][1] = Returned(0)
    /\ out[1][NumDetectors] = Returned(1)
    /\ Count(sent[1], "add", NumDetectors) = 1
    /\ Count(sent[1], "complete", 0) = 1

\* ----------------------------------------------------------------- C10
\* Every detector called so far had its progress message issued, once, and
\* before anything about its outcome; a completion message is issued at
\* most once, last, and only when every detector has returned or raised.
ProgressOrdered(msgs, invoked, outcomes) ==
    /\ \A i \in Detectors :
          Count(msgs, "log_scanning", i) = (IF i \in invoked THEN 1 ELSE 0)
    /\ \A k \in DOMAIN msgs :
          msgs[k].kind \in {"log_error", "log_found", "add"} =>
             \E j \in 1..(k - 1) :
                 msgs[j].kind = "log_scanning" /\ msgs[j].det = msgs[k].det
    /\ Count(msgs, "complete", 0) <= 1
    /\ \A k \in DOMAIN msgs :
          msgs[k].kind = "complete" =>
             /\ k = Len(msgs)
             /\ \A i \in Detectors : outcomes[i].kind # "pending"

C11_UnusableQueryFailsFast ==
    (mode = "cli" /\ ~rg_client) =>
        /\ scan_pc # "done"
        /\ \A i \in Detectors : i > 1 => scan_out[i] = Pending

\* ============================================================ costs.py
\* Money is counted in thousandths of a dollar (3.65 is 3650), so that the
\* values a format spec rounds away can be told apart.
Dollars(n) == n * 1000
Cents(n) == n * 10

\* The digits of n, left-padded with zeros to width w (w <= 3).
Pad(n, w) ==
    (IF w >= 3 /\ n < 100 THEN "0" ELSE "") \o
    (IF w >= 2 /\ n < 10 THEN "0" ELSE "") \o ToString(n)

\* A binary float holds a value ending in half a cent exactly only when it
\* is a multiple of 1/8; python then rounds half to even. Otherwise the
\* stored float lies just above or just below, which up says.
RoundCents(m, up) ==
    LET c == m \div 10
        r == m % 10
    IN IF r < 5 THEN c
       ELSE IF r > 5 THEN c + 1
       ELSE IF m % 125 = 0 THEN (IF c % 2 = 0 THEN c ELSE c + 1)
       ELSE IF up THEN c + 1 ELSE c

\* Rounding to whole dollars; half a dollar is exact in binary: half to even.
RoundDollars(m) ==
    LET d == m \div 1000
        r == m % 1000
    IN IF r < 500 THEN d
       ELSE IF r > 500 THEN d + 1
       ELSE IF d % 2 = 0 THEN d ELSE d + 1

\* format(n, ",") for an integer n >= 0.
RECURSIVE Grouped(_)
Grouped(n) ==
    IF n < 1000 THEN ToString(n)
    ELSE Grouped(n \div 1000) \o "," \o Pad(n % 1000, 3)

\* f"{cost:.2f}", f"{cost:.0f}", f"{cost:,.0f}" for cost >= 0.
RECURSIVE Fixed2(_, _)
Fixed2(m, up) ==
    IF m < 0 THEN "-" \o Fixed2(0 - m, ~up)
    ELSE LET c == RoundCents(m, up)
         IN ToString(c \div 100) \o "." \o Pad(c % 100, 2)
Fixed0(m) == ToString(RoundDollars(m))
Grouped0(m) == Grouped(RoundDollars(m))

\* format_cost: the branch taken (form), the number printed (value) and
\* the returned text.
format_cost(m, up) ==
    IF m = 0 THEN [form |-> "zero", value |-> 0, text |-> "$0"]
    ELSE IF m >= Dollars(1000)
    THEN [form |-> "grouped", value |-> Dollars(RoundDollars(m)),
          text |-> "$" \o Grouped0(m)]
    ELSE IF m >= Dollars(100)
    THEN [form |-> "integer", value |-> Dollars(RoundDollars(m)),
          text |-> "$" \o Fixed0(m)]
    ELSE [form |-> "decimal", value |-> Cents(RoundCents(m, up)),
          text |-> "$" \o Fixed2(m, up)]

\* The costs format_cost is tried on: everything up to $1.20, the
\* neighbourhoods of $100, $150 and $1000, and a few larger amounts.
CostSamples ==
    (0 .. 1200) \cup (99900 .. 100100) \cup (149900 .. 150100)
        \cup (999000 .. 1000600)
        \cup {3650, 2944000, 999999500, 1234567890}

\* A call format_cost(cost) is about to be made.
InitFormatCost ==
    /\ mode = "format_cost"
    /\ cost \in CostSamples
    /\ cost_display = ""
    /\ cost_rendered = [form |-> "none", value |-> 0]

\* The call returns.
FormatCost ==
    /\ mode = "format_cost"
    /\ cost_rendered.form = "none"
    /\ \E up \in BOOLEAN :
         LET r == format_cost(cost, up)
         IN /\ cost_display' = r.text
            /\ cost_rendered' = [form |-> r.form, value |-> r.value]
    /\ UNCHANGED <<mode, guiVars, cliVars, lookupVars, cost, resource_type, info, detVars,
                   gridVars>>

\* ============================================================= strings
\* A python str is the sequence of its characters.
LowerAZ == <<"a", "b", "c", "d", "e", "f", "g", "h", "i", "j", "k", "l", "m",
             "n", "o", "p", "q", "r", "s", "t", "u", "v", "w", "x", "y", "z">>
UpperAZ == <<"A", "B", "C", "D", "E", "F", "G", "H", "I", "J", "K", "L", "M",
             "N", "O", "P", "Q", "R", "S", "T", "U", "V", "W", "X", "Y", "Z">>
Digits == <<"0", "1", "2", "3", "4", "5", "6", "7", "8", "9">>

LowerMap == [c \in Range(UpperAZ) |-> LowerAZ[CHOOSE i \in DOMAIN UpperAZ : UpperAZ[i] = c]]
UpperMap == [c \in Range(LowerAZ) |-> UpperAZ[CHOOSE i \in DOMAIN LowerAZ : LowerAZ[i] = c]]
LowerChar(c) == IF c \in DOMAIN LowerMap THEN LowerMap[c] ELSE c
UpperChar(c) == IF c \in DOMAIN UpperMap THEN UpperMap[c] ELSE c
IsLetter(c) == c \in DOMAIN LowerMap \/ c \in DOMAIN UpperMap
IsDigit(c) == c \in Range(Digits)

\* str.lower, str.upper
Lower(s) == [i \in 1..Len(s) |-> LowerChar(s[i])]
Upper(s) == [i \in 1..Len(s) |-> UpperChar(s[i])]

\* str.title: a letter is upper case exactly when no letter precedes it.
Title(s) ==
    [i \in 1..Len(s) |->
        IF i > 1 /\ IsLetter(s[i - 1]) THEN LowerChar(s[i]) ELSE UpperChar(s[i])]

\* s.split(sep)[-1] for a one-character sep
LastSegment(s, sep) ==
    LET at == {i \in 1..Len(s) : s[i] = sep}
    IN IF at = {} THEN s
       ELSE SubSeq(s, (CHOOSE i \in at : \A j \in at : j <= i) + 1, Len(s))

\* A Python string: the sequence of its one-character strings.
S(text) == [i \in 1..Len(text) |-> SubSeq(text, i, i)]

\* ===================================================== resource_info.py
RISK_LOW == "low"
RISK_MEDIUM == "medium"
RISK_HIGH == "high"

RESOURCE_INFO ==
    "microsoft.network/networkinterfaces" :> [
        friendly_name |-> S("Network Interface (NIC)"),
        risk_level |-> "low",
        description |-> "A virtual network adapter that connects a VM to a network.",
        why_orphaned |-> "Not attached to any VM. Usually left behind when a VM was deleted.",
        safe_to_delete |-> "Yes - NICs don't contain data, just configuration.",
        check_before_delete |-> "Verify no VM is being provisioned that needs this NIC.",
        deletion_impact |-> "No impact - the NIC is not being used.",
        recovery_info |-> "Cannot be recovered, but easily recreated if needed."] @@
    "microsoft.network/publicipaddresses" :> [
        friendly_name |-> S("Public IP Address"),
        risk_level |-> "low",
        description |-> "A public IP address that can be assigned to Azure resources.",
        why_orphaned |-> "Not attached to any resource (NIC, Load Balancer, etc.).",
        safe_to_delete |-> "Yes - Just an IP address, easily recreated.",
        check_before_delete |-> "If static IP, verify the IP address isn't documented elsewhere (DNS, firewall rules).",
        deletion_impact |-> "You will lose this specific IP address. Dynamic IPs get a new address on recreation.",
        recovery_info |-> "Cannot recover the same IP - you'll get a new one."] @@
    "microsoft.network/networksecuritygroups" :> [
        friendly_name |-> S("Network Security Group (NSG)"),
        risk_level |-> "low",
        description |-> "A firewall that filters network traffic to/from Azure resources.",
        why_orphaned |-> "Not attached to any subnet or network interface.",
        safe_to_delete |-> "Yes - Not protecting anything currently.",
        check_before_delete |-> "Review the rules - you may want to save them for reference.",
        deletion_impact |-> "No impact - the NSG is not filtering any traffic.",
        recovery_info |-> "Cannot be recovered, but rules can be recreated."] @@
    "microsoft.network/routetables" :> [
        friendly_name |-> S("Route Table"),
        risk_level |-> "low",
        description |-> "Custom routing rules for network traffic in a virtual network.",
        why_orphaned |-> "Not attached to any subnet.",
        safe_to_delete |-> "Yes - Not routing any traffic currently.",
        check_before_delete |-> "Review the routes - you may want to document them.",
        deletion_impact |-> "No impact - the route table is not in use.",
        recovery_info |-> "Cannot be recovered, but routes can be recreated."] @@
    "microsoft.compute/availabilitysets" :> [
        friendly_name |-> S("Availability Set"),
        risk_level |-> "low",
        description |-> "A logical grouping of VMs for high availability (fault/update domains).",
        why_orphaned |-> "No VMs are assigned to this availability set.",
        safe_to_delete |-> "Yes - Just metadata, no resources inside.",
        check_before_delete |-> "Verify no VMs are being provisioned that need this set.",
        deletion_impact |-> "No impact - just removes empty container.",
        recovery_info |-> "Cannot be recovered, but easily recreated."] @@
    "microsoft.network/ipgroups" :> [
        friendly_name |-> S("IP Group"),
        risk_level |-> "low",
        description |-> "A container for IP addresses used in Azure Firewall rules.",
        why_orphaned |-> "Not associated with any Azure Firewall or policy.",
        safe_to_delete |-> "Yes - Just a list of IPs, not used anywhere.",
        check_before_delete |-> "Verify no firewall rules are being created that need this group.",
        deletion_impact |-> "No impact - the IP list is not referenced.",
        recovery_info |-> "Cannot be recovered, but IP list can be recreated."] @@
    "microsoft.resources/subscriptions/resourcegroups" :> [
        friendly_name |-> S("Resource Group"),
        risk_level |-> "low",
        description |-> "A container that holds related Azure resources.",
        why_orphaned |-> "Contains no resources.",
        safe_to_delete |-> "Yes - Empty container with no resources.",
        check_before_delete |-> "Double-check it's truly empty and not reserved for future use.",
        deletion_impact |-> "No impact - just removes empty container.",
        recovery_info |-> "Cannot be recovered, but easily recreated."] @@
    "microsoft.network/trafficmanagerprofiles" :> [
        friendly_name |-> S("Traffic Manager Profile"),
        risk_level |-> "low",
        description |-> "DNS-based traffic load balancer for distributing traffic globally.",
        why_orphaned |-> "Has no endpoints configured.",
        safe_to_delete |-> "Yes - Not routing any traffic.",
        check_before_delete |-> "Verify no DNS records point to this profile.",
        deletion_impact |-> "No impact - no endpoints to receive traffic.",
        recovery_info |-> "Cannot be recovered, but easily recreated."] @@
    "microsoft.network/frontdoorwebapplicationfirewallpolicies" :> [
        friendly_name |-> S("Front Door WAF Policy"),
        risk_level |-> "low",
        description |-> "Web Application Firewall policy for Azure Front Door.",
        why_orphaned |-> "Not linked to any Front Door endpoints.",
        safe_to_delete |-> "Yes - Not protecting any endpoints.",
        check_before_delete |-> "Document custom rules if you want to reuse them later.",
        deletion_impact |-> "No impact - policy is not applied anywhere.",
        recovery_info |-> "Cannot be recovered, but rules can be recreated."] @@
    "microsoft.web/connections" :> [
        friendly_name |-> S("API Connection"),
        risk_level |-> "low",
        description |-> "A connector used by Logic Apps to connect to external services.",
        why_orphaned |-> "In Error or Disconnected state - connection is broken.",
        safe_to_delete |-> "Yes - Already broken, needs to be fixed or replaced.",
        check_before_delete |-> "Check if any Logic Apps reference this connection.",
        deletion_impact |-> "Logic Apps using this connection may fail (they may already be failing).",
        recovery_info |-> "Create a new connection with the same settings."] @@
    "microsoft.web/certificates" :> [
        friendly_name |-> S("App Service Certificate"),
        risk_level |-> "low",
        description |-> "SSL/TLS certificate for securing App Service applications.",
        why_orphaned |-> "Certificate has expired.",
        safe_to_delete |-> "Yes - Expired certificates provide no security value.",
        check_before_delete |-> "Ensure a new certificate has been provisioned.",
        deletion_impact |-> "No impact if already replaced. Apps using expired cert are already insecure.",
        recovery_info |-> "Purchase or provision a new certificate."] @@
    "microsoft.network/loadbalancers" :> [
        friendly_name |-> S("Load Balancer"),
        risk_level |-> "low",
        description |-> "Distributes network traffic across multiple backend resources.",
        why_orphaned |-> "Backend pool is empty - no resources to load balance.",
        safe_to_delete |-> "Yes - Not routing traffic to any backends.",
        check_before_delete |-> "Verify no resources are being added to this load balancer.",
        deletion_impact |-> "No impact - no backends receiving traffic.",
        recovery_info |-> "Cannot be recovered, but easily recreated."] @@
    "microsoft.web/serverfarms" :> [
        friendly_name |-> S("App Service Plan"),
        risk_level |-> "low",
        description |-> "The compute resources (VMs) that host App Service applications.",
        why_orphaned |-> "No apps are hosted on this plan.",
        safe_to_delete |-> "Yes - Empty plan just costs money with no benefit.",
        check_before_delete |-> "Verify no apps are being deployed to this plan.",
        deletion_impact |-> "No impact - no apps hosted.",
        recovery_info |-> "Cannot be recovered, but easily recreated."] @@
    "microsoft.sql/servers/elasticpools" :> [
        friendly_name |-> S("SQL Elastic Pool"),
        risk_level |-> "low",
        description |-> "Shared compute resources for multiple Azure SQL databases.",
        why_orphaned |-> "No databases are in this pool.",
        safe_to_delete |-> "Yes - Empty pool just costs money with no benefit.",
        check_before_delete |-> "Verify no databases are being added to this pool.",
        deletion_impact |-> "No impact - no databases in pool.",
        recovery_info |-> "Cannot be recovered, but easily recreated."] @@
    "microsoft.compute/disks" :> [
        friendly_name |-> S("Managed Disk"),
        risk_level |-> "medium",
        description |-> "A virtual hard drive that stores VM data (OS or data disk).",
        why_orphaned |-> "Not attached to any VM. The original VM may have been deleted.",
        safe_to_delete |-> "CAUTION - This disk may contain important data!",
        check_before_delete |-> "1. Check disk name for hints about original VM\n2. Consider mounting to a VM to check contents\n3. Take a snapshot before deleting if unsure\n4. Verify data is backed up elsewhere",
        deletion_impact |-> "ALL DATA ON THE DISK WILL BE PERMANENTLY LOST.",
        recovery_info |-> "CANNOT be recovered after deletion. Create snapshot first if unsure."] @@
    "microsoft.compute/virtualmachines" :> [
        friendly_name |-> S("Virtual Machine"),
        risk_level |-> "medium",
        description |-> "A stopped/deallocated VM that is not currently running.",
        why_orphaned |-> "VM is deallocated (stopped). May be intentionally stopped.",
        safe_to_delete |-> "CAUTION - Verify this VM is not needed before deleting.",
        check_before_delete |-> "1. Check with team/owner if VM is still needed\n2. Verify any data on the VM is backed up\n3. Check if VM is stopped temporarily (maintenance window)",
        deletion_impact |-> "VM and its OS disk will be deleted. Data disks may remain orphaned.",
        recovery_info |-> "Cannot be recovered. Disks may be retained depending on settings."] @@
    "microsoft.network/privatednszones" :> [
        friendly_name |-> S("Private DNS Zone"),
        risk_level |-> "medium",
        description |-> "A private DNS zone for name resolution within virtual networks.",
        why_orphaned |-> "Not linked to any virtual networks.",
        safe_to_delete |-> "CAUTION - DNS records may still be needed by applications.",
        check_before_delete |-> "1. Check if any apps reference these DNS names\n2. Verify records are documented elsewhere\n3. Check if VNet link is being configured",
        deletion_impact |-> "All DNS records in this zone will be deleted.",
        recovery_info |-> "Cannot be recovered. Records must be recreated manually."] @@
    "microsoft.network/privateendpoints" :> [
        friendly_name |-> S("Private Endpoint"),
        risk_level |-> "medium",
        description |-> "A network interface connecting to an Azure service privately.",
        why_orphaned |-> "Connection is in Disconnected or Rejected state.",
        safe_to_delete |-> "CAUTION - The target service may still need private connectivity.",
        check_before_delete |-> "1. Verify the target service doesn't need this endpoint\n2. Check if connection needs to be re-approved\n3. Confirm private DNS records can be cleaned up",
        deletion_impact |-> "Private connectivity to the service will be lost.",
        recovery_info |-> "Must create a new private endpoint and get approval."] @@
    "microsoft.network/applicationgateways" :> [
        friendly_name |-> S("Application Gateway"),
        risk_level |-> "medium",
        description |-> "A Layer 7 load balancer for web traffic with WAF capabilities.",
        why_orphaned |-> "Backend pools are empty - no servers to route to.",
        safe_to_delete |-> "CAUTION - May be in setup phase or temporarily empty.",
        check_before_delete |-> "1. Check if backends are being configured\n2. Verify SSL certificates aren't needed elsewhere\n3. Document custom WAF rules if configured",
        deletion_impact |-> "All configuration, rules, and SSL certificates will be lost.",
        recovery_info |-> "Cannot be recovered. Complex to recreate - document config first."] @@
    "microsoft.network/natgateways" :> [
        friendly_name |-> S("NAT Gateway"),
        risk_level |-> "medium",
        description |-> "Provides outbound internet connectivity for resources in a subnet.",
        why_orphaned |-> "Not attached to any subnets.",
        safe_to_delete |-> "CAUTION - Verify subnet outbound connectivity is handled another way.",
        check_before_delete |-> "1. Check if subnet is being configured to use this NAT GW\n2. Verify resources have alternative outbound connectivity\n3. Confirm public IPs can be released",
        deletion_impact |-> "Associated public IPs may become orphaned.",
        recovery_info |-> "Cannot be recovered, but can recreate with same config."] @@
    "microsoft.network/ddosprotectionplans" :> [
        friendly_name |-> S("DDoS Protection Plan"),
        risk_level |-> "medium",
        description |-> "Protection against DDoS attacks for virtual networks.",
        why_orphaned |-> "No virtual networks are protected by this plan.",
        safe_to_delete |-> "Yes - VERY expensive ($2,944/mo) with no VNets protected.",
        check_before_delete |-> "1. Verify no VNets are being added to this plan\n2. Confirm DDoS protection strategy with security team",
        deletion_impact |-> "No impact if no VNets are linked.",
        recovery_info |-> "Can recreate, but takes time to provision."] @@
    "microsoft.network/virtualnetworkgateways" :> [
        friendly_name |-> S("VNet Gateway"),
        risk_level |-> "high",
        description |-> "Gateway for VPN or ExpressRoute connectivity to on-premises.",
        why_orphaned |-> "No connections and no VPN clients configured.",
        safe_to_delete |-> "HIGH RISK - Verify no VPN/ExpressRoute connectivity is needed.",
        check_before_delete |-> "1. Check with network team about connectivity requirements\n2. Verify no on-premises connections exist\n3. Confirm no point-to-site VPN users need access\n4. Check for any BGP peering configurations",
        deletion_impact |-> "ALL VPN/ExpressRoute connectivity will be lost. Very expensive to recreate.",
        recovery_info |-> "Provisioning takes 30-45 minutes. All connections must be reconfigured."]

\* get_resource_info without the lower(): the dictionary is asked for the
\* type as given.
get_resource_info_as_given(rtype) ==
    IF \E k \in DOMAIN RESOURCE_INFO : S(k) = rtype
    THEN RESOURCE_INFO[CHOOSE k \in DOMAIN RESOURCE_INFO : S(k) = rtype]
    ELSE [friendly_name |-> Title(LastSegment(rtype, "/")),
          risk_level |-> RISK_MEDIUM,
          description |-> "Azure resource.",
          why_orphaned |-> "Detected as potentially unused.",
          safe_to_delete |-> "Verify before deleting.",
          check_before_delete |-> "Review resource details and check with team.",
          deletion_impact |-> "Unknown - verify with Azure documentation.",
          recovery_info |-> "Varies by resource type."]

\* get_resource_info
get_resource_info(rtype) ==
    LET rtype_lower == Lower(rtype)
    IN IF \E k \in DOMAIN RESOURCE_INFO : S(k) = rtype_lower
       THEN RESOURCE_INFO[CHOOSE k \in DOMAIN RESOURCE_INFO : S(k) = rtype_lower]
       ELSE [friendly_name |-> Title(LastSegment(rtype, "/")),
             risk_level |-> RISK_MEDIUM,
             description |-> "Azure resource.",
             why_orphaned |-> "Detected as potentially unused.",
             safe_to_delete |-> "Verify before deleting.",
             check_before_delete |-> "Review resource details and check with team.",
             deletion_impact |-> "Unknown - verify with Azure documentation.",
             recovery_info |-> "Varies by resource type."]

\* get_risk_level
\* The risk level of a type the catalog does not hold, whatever the type.
get_risk_level_unknown(rtype) == RISK_MEDIUM

get_risk_level(rtype) == get_resource_info(rtype).risk_level

\* The type identifiers get_resource_info is tried on: every catalog key in
\* lower case, upper case, title case and with any single letter in upper
\* case; every catalog key with a character added or dropped; every string
\* of up to MaxTypeLen characters of TypeAlphabet.
MaxTypeLen == 4
TypeAlphabet == {"a", "B", "/", "-", "1"}

CaseVariants(s) ==
    {s, Upper(s), Title(s)} \cup {[s EXCEPT ![i] = UpperChar(s[i])] : i \in 1..Len(s)}

NearMisses(s) == {Append(s, "s"), SubSeq(s, 1, Len(s) - 1), SubSeq(s, 2, Len(s))}

TypeSamples ==
    UNION {CaseVariants(S(k)) \cup NearMisses(S(k)) : k \in DOMAIN RESOURCE_INFO}
        \cup UNION {[1..n -> TypeAlphabet] : n \in 0..MaxTypeLen}

\* A call get_resource_info(resource_type) is about to be made.
InitResourceInfo ==
    /\ mode = "get_resource_info"
    /\ resource_type \in TypeSamples
    /\ info = NoInfo

\* The call returns.
GetResourceInfo ==
    /\ mode = "get_resource_info"
    /\ info = NoInfo
    /\ info' = get_resource_info(resource_type)
    /\ UNCHANGED <<mode, guiVars, cliVars, lookupVars, cost, cost_display, cost_rendered,
                   resource_type, detVars, gridVars>>

\* ============================================================ raw rows
\* A value of a raw row: null, a string, a number, a boolean, a sequence
\* or a nested mapping. A row (and a nested mapping) is a function from the
\* names of the fields it holds to their values.
Null == [t |-> "null"]
Str(s) == [t |-> "str", v |-> s]
Num(n) == [t |-> "int", v |-> n]
Bool(b) == [t |-> "bool", v |-> b]
List(l) == [t |-> "list", v |-> l]
Dict(d) == [t |-> "dict", v |-> d]
EmptyRow == [k \in {} |-> Null]

IsNull(x) == x.t = "null"
IsStr(x) == x.t = "str"
IsNum(x) == x.t = "int"
IsList(x) == x.t = "list"
IsDict(x) == x.t = "dict"

\* dict.get(key): None when the key is absent.
GetOrNone(item, key, default) == IF key \in DOMAIN item THEN item[key] ELSE Null

\* dict.get(key, default): the default only when the key is absent.
Get(item, key, default) == IF key \in DOMAIN item THEN item[key] ELSE default

\* bool(x): None, "", 0, False, [] and {} are false.
Truthy(x) ==
    CASE x.t = "null" -> FALSE
      [] x.t = "str" -> x.v # <<>>
      [] x.t = "int" -> x.v # 0
      [] x.t = "bool" -> x.v
      [] x.t = "list" -> x.v # <<>>
      [] x.t = "dict" -> DOMAIN x.v # {}

\* x or default
Or(x, default) == IF Truthy(x) THEN x ELSE default

\* str(n) for an integer n
RECURSIVE DigitsOf(_)
DigitsOf(n) ==
    IF n < 0 THEN <<"-">> \o DigitsOf(0 - n)
    ELSE IF n < 10 THEN <<Digits[n + 1]>>
    ELSE Append(DigitsOf(n \div 10), Digits[(n % 10) + 1])

\* f"{x}" for a null, string, integer or boolean x
Fmt(x) ==
    CASE x.t = "null" -> S("None")
      [] x.t = "str" -> x.v
      [] x.t = "int" -> DigitsOf(x.v)
      [] x.t = "bool" -> IF x.v THEN S("True") ELSE S("False")

\* sub in s, s.endswith(suffix), s.startswith(prefix)
Contains(sub, s) ==
    \E i \in 0..(Len(s) - Len(sub)) : SubSeq(s, i + 1, i + Len(sub)) = sub
EndsWith(s, suffix) ==
    Len(suffix) <= Len(s) /\ SubSeq(s, Len(s) - Len(suffix) + 1, Len(s)) = suffix
StartsWith(s, prefix) ==
    Len(prefix) <= Len(s) /\ SubSeq(s, 1, Len(prefix)) = prefix

\* s.replace(old, new), scanning from the left (old is not empty)
RECURSIVE Replace(_, _, _)
Replace(s, old, new) ==
    IF s = <<>> THEN <<>>
    ELSE IF StartsWith(s, old)
    THEN new \o Replace(SubSeq(s, Len(old) + 1, Len(s)), old, new)
    ELSE <<Head(s)>> \o Replace(Tail(s), old, new)

\* " | ".join(parts)
RECURSIVE Join(_)
Join(parts) ==
    IF parts = <<>> THEN <<>>
    ELSE IF Len(parts) = 1 THEN parts[1]
    ELSE parts[1] \o S(" | ") \o Join(Tail(parts))

\* The parts that are present: a conditional fragment is <<>> when its
\* condition is false and <<fragment>> when it is true.
When(cond, fragment) == IF cond THEN <<fragment>> ELSE <<>>

\* ==================================================== costs.py estimates
\* round(x, 2) of a computed float x, as a number of cents: a product of
\* binary floats that ends in half a cent on paper lies just above or just
\* below it, which up says.
Round2(m, up) ==
    LET c == m \div 10
        r == m % 10
    IN IF r < 5 THEN c ELSE IF r > 5 THEN c + 1 ELSE IF up THEN c + 1 ELSE c

\* table.get(key, default) for a table keyed by string literals
Lookup(table, key, default) ==
    IF \E k \in DOMAIN table : S(k) = key
    THEN table[CHOOSE k \in DOMAIN table : S(k) = key]
    ELSE default

\* sku.lower().replace("-", "").replace("_", "") (in either order)
Normalized(sku) == Replace(Replace(Lower(sku), <<"-">>, <<>>), <<"_">>, <<>>)

estimate_nic_cost == 0

estimate_public_ip_cost(sku) ==
    IF Lower(sku) = S("standard") THEN Dollars(4) ELSE 3650

estimate_disk_cost(size_gb, tier, up) ==
    LET rate_per_gb == IF Contains(S("premium"), Lower(tier)) THEN 150
                       ELSE IF Contains(S("standardssd"), Lower(tier)) THEN 75
                       ELSE 50
    IN Cents(Round2(size_gb * rate_per_gb, up))

\* 0.36 * 730 + 0.0144 * capacity * 730, or 0.25 * 730 + 0.008 * capacity * 730
estimate_app_gateway_cost(tier, capacity, up) ==
    IF Contains(S("waf"), Lower(tier))
    THEN Cents(Round2(262800 + 10512 * capacity, up))
    ELSE Cents(Round2(182500 + 5840 * capacity, up))

VnetGatewaySkuCosts ==
    "basic" :> 27000 @@ "vpngw1" :> 140000 @@ "vpngw1az" :> 196000 @@
    "vpngw2" :> 361000 @@ "vpngw2az" :> 506000 @@ "vpngw3" :> 927000 @@
    "vpngw3az" :> 1298000 @@ "vpngw4" :> 1825000 @@ "vpngw4az" :> 2555000 @@
    "vpngw5" :> 3650000 @@ "vpngw5az" :> 5110000 @@ "ergw1az" :> 214000 @@
    "ergw2az" :> 536000 @@ "ergw3az" :> 1072000 @@ "standard" :> 214000 @@
    "highperformance" :> 536000 @@ "ultrahighperformance" :> 1072000

estimate_vnet_gateway_cost(sku) ==
    Lookup(VnetGatewaySkuCosts, Normalized(sku), 140000)

\* 0.045 * 730 with no data processed
estimate_nat_gateway_cost == 32850

\* 0.025 * 730 + 0.005 * max(0, rules - 5) * 730
estimate_load_balancer_cost(sku, rules, up) ==
    IF Lower(sku) = S("basic") THEN 0
    ELSE LET extra_rules == IF rules - 5 > 0 THEN rules - 5 ELSE 0
         IN Cents(Round2(18250 + 3650 * extra_rules, up))

\* per-eDTU rate * 730
ElasticPoolTierRates == "basic" :> 5475 @@ "standard" :> 16425 @@ "premium" :> 54750

estimate_sql_elastic_pool_cost(dtu, tier, up) ==
    Cents(Round2(dtu * Lookup(ElasticPoolTierRates, Lower(tier), 16425), up))

AppServicePlanSkuCosts ==
    "f1" :> 0 @@ "free" :> 0 @@ "d1" :> 10000 @@ "shared" :> 10000 @@
    "b1" :> 55000 @@ "b2" :> 109000 @@ "b3" :> 219000 @@
    "s1" :> 73000 @@ "s2" :> 146000 @@ "s3" :> 292000 @@
    "p1" :> 146000 @@ "p2" :> 292000 @@ "p3" :> 584000 @@
    "p1v2" :> 88000 @@ "p2v2" :> 175000 @@ "p3v2" :> 350000 @@
    "p1v3" :> 104000 @@ "p2v3" :> 208000 @@ "p3v3" :> 416000

\* tier is not used.
estimate_app_service_plan_cost(tier, size) ==
    Lookup(AppServicePlanSkuCosts, Normalized(size), 73000)

estimate_ddos_plan_cost == 2944000

\* 0.54 * queries_millions + 0.36 * endpoints, called with 0 and 0
estimate_traffic_manager_cost(endpoints, queries_millions, up) ==
    Cents(Round2(540 * queries_millions + 360 * endpoints, up))

estimate_frontdoor_waf_cost(rules, up) == Cents(Round2(5000 + 1000 * rules, up))

estimate_nsg_cost == 0
estimate_route_table_cost == 0
estimate_availability_set_cost == 0
estimate_ip_group_cost == 0
estimate_private_dns_zone_cost == 500
estimate_private_endpoint_cost == 7300
estimate_resource_group_cost == 0
estimate_api_connection_cost == 0
estimate_certificate_cost == 0

\* ======================================================= detectors/*.py
\* One pass of a detector's loop over a raw row either raises or appends
\* one record.
Raise == [raised |-> TRUE]
Emit(record) == [raised |-> FALSE, record |-> record]

\* A number as Python's arithmetic and comparisons take it (a boolean is 0
\* or 1); anything else makes them raise TypeError.
IsNumber(x) == x.t \in {"int", "bool"}
NumVal(x) == IF x.t = "bool" THEN (IF x.v THEN 1 ELSE 0) ELSE x.v

\* The dictionary every detector appends; cost is in thousandths of a dollar
\* and the pass-through fields keep the raw value of the row.
Resource(item, name, rtype, type_display, location, monthly_cost, details_parts, risk_level, up) ==
    [name |-> name,
     type |-> rtype,
     type_display |-> type_display,
     resource_group |-> Get(item, "resourceGroup", Str(<<>>)),
     location |-> Get(item, "location", Str(location)),
     id |-> Get(item, "id", Str(<<>>)),
     subscription_id |-> Get(item, "subscriptionId", Str(<<>>)),
     cost |-> monthly_cost,
     cost_display |-> format_cost(monthly_cost, up).text,
     details |-> Join(details_parts),
     risk_level |-> risk_level]

detect_failed_api_connections(item, up) ==
    LET name == Get(item, "name", Str(<<>>))
        status == Get(item, "status", Str(S("Error")))
        error_msg == Get(item, "errorMessage", Str(<<>>))
        api_name == Get(item, "api", Str(<<>>))
        monthly_cost == estimate_api_connection_cost
        details_parts ==
            When(Truthy(api_name), S("API: ") \o Fmt(api_name))
            \o <<S("Status: ") \o Fmt(status)>>
            \o When(Truthy(error_msg) /\ Len(error_msg.v) < 50, error_msg.v)
    IN \* len() of a number raises, and join() of a part that is not a string
       IF Truthy(error_msg) /\ ~IsStr(error_msg) THEN Raise
       ELSE Emit(Resource(item, name, S("microsoft.web/connections"),
                          S("API Connection"), <<>>, monthly_cost, details_parts,
                          get_risk_level(S("microsoft.web/connections")), up))

detect_orphaned_app_gateways(item, up) ==
    LET name == Get(item, "name", Str(<<>>))
        tier == Or(Get(item, "tier", Str(S("Standard_v2"))), Str(S("Standard_v2")))
        capacity == Or(Get(item, "capacity", Num(2)), Num(2))
        monthly_cost == estimate_app_gateway_cost(tier.v, NumVal(capacity), up)
        details_parts ==
            <<S("Tier: ") \o Fmt(tier),
              S("Capacity: ") \o Fmt(capacity),
              S("Empty backend pools")>>
    IN \* tier.lower() and capacity_rate * capacity
       IF ~IsStr(tier) \/ ~IsNumber(capacity) THEN Raise
       ELSE Emit(Resource(item, name, S("microsoft.network/applicationgateways"),
                          S("App Gateway"), <<>>, monthly_cost, details_parts,
                          get_risk_level(S("microsoft.network/applicationgateways")),
                          up))

\* The fragments of an App Service Plan's details, in order.
AppServicePlanDetails(kind, sku, capacity) ==
    (IF Contains(S("linux"), Lower(kind.v)) THEN <<S("Linux")>>
     ELSE IF Contains(S("windows"), Lower(kind.v)) THEN <<S("Windows")>>
     ELSE IF Contains(S("functionapp"), Lower(kind.v)) THEN <<S("Functions")>>
     ELSE <<>>)
    \o <<S("SKU: ") \o Fmt(sku)>>
    \o When(NumVal(capacity) > 1, Fmt(capacity) \o S(" instances"))
    \o <<S("No apps")>>

\* The table rate alone, whatever the capacity.
AppServicePlanRate(tier, size, capacity) ==
    estimate_app_service_plan_cost(tier, size.v)

AppServicePlanCost(tier, size, capacity) ==
    estimate_app_service_plan_cost(tier, size.v) * NumVal(capacity)

detect_orphaned_app_service_plans(item, up) ==
    LET name == Get(item, "name", Str(<<>>))
        sku == Or(Get(item, "sku", Str(S("B1"))), Str(S("B1")))
        tier == Or(Get(item, "tier", Str(S("Basic"))), Str(S("Basic")))
        size == Or(Get(item, "size", Str(S("B1"))), Str(S("B1")))
        capacity == Or(Get(item, "capacity", Num(1)), Num(1))
        kind == Or(Get(item, "kind", Str(<<>>)), Str(<<>>))
        monthly_cost == AppServicePlanCost(tier, size, capacity)
    IN \* size.lower(), cost * capacity (cost is a float), kind.lower()
       IF ~IsStr(size) \/ ~IsNumber(capacity) \/ ~IsStr(kind) THEN Raise
       ELSE Emit(Resource(item, name, S("microsoft.web/serverfarms"),
                          S("App Service Plan"), <<>>, monthly_cost,
                          AppServicePlanDetails(kind, sku, capacity),
                          get_risk_level(S("microsoft.web/serverfarms")), up))

detect_orphaned_availability_sets(item, up) ==
    LET name == Get(item, "name", Str(<<>>))
        fault_domains == Or(Get(item, "faultDomains", Num(2)), Num(2))
        update_domains == Or(Get(item, "updateDomains", Num(5)), Num(5))
        sku == Or(Get(item, "sku", Str(S("Classic"))), Str(S("Classic")))
        monthly_cost == estimate_availability_set_cost
        details_parts ==
            <<S("SKU: ") \o Fmt(sku),
              S("FD: ") \o Fmt(fault_domains),
              S("UD: ") \o Fmt(update_domains),
              S("No VMs")>>
    IN Emit(Resource(item, name, S("microsoft.compute/availabilitysets"),
                     S("Avail Set"), <<>>, monthly_cost, details_parts,
                     get_risk_level(S("microsoft.compute/availabilitysets")), up))

detect_orphaned_ddos_plans(item, up) ==
    LET name == Get(item, "name", Str(<<>>))
        state == Get(item, "provisioningState", Str(<<>>))
        monthly_cost == estimate_ddos_plan_cost
        details_parts ==
            <<S("No protected VNets"), S("HIGH COST")>>
            \o When(Truthy(state), S("State: ") \o Fmt(state))
    IN Emit(Resource(item, name, S("microsoft.network/ddosprotectionplans"),
                     S("DDoS Plan"), <<>>, monthly_cost, details_parts,
                     get_risk_level(S("microsoft.network/ddosprotectionplans")),
                     up))

detect_orphaned_frontdoor_waf_policies(item, up) ==
    LET name == Get(item, "name", Str(<<>>))
        custom_rules == Or(Get(item, "customRulesCount", Num(0)), Num(0))
        managed_rules == Or(Get(item, "managedRulesCount", Num(0)), Num(0))
        settings == Or(Get(item, "policySettings", Null), Dict(EmptyRow))
        monthly_cost == estimate_frontdoor_waf_cost(NumVal(custom_rules), up)
        policy_mode == Get(settings.v, "mode", Str(<<>>))
        details_parts ==
            When(NumVal(custom_rules) > 0, Fmt(custom_rules) \o S(" custom rules"))
            \o When(NumVal(managed_rules) > 0,
                    Fmt(managed_rules) \o S(" managed rulesets"))
            \o When(Truthy(policy_mode), S("Mode: ") \o Fmt(policy_mode))
            \o <<S("Not linked")>>
    IN \* 1.0 * rules, managed_rules > 0, settings.get
       IF ~IsNumber(custom_rules) \/ ~IsNumber(managed_rules) \/ ~IsDict(settings)
       THEN Raise
       ELSE Emit(Resource(item, name,
                          S("microsoft.network/frontdoorwebapplicationfirewallpolicies"),
                          S("FD WAF Policy"), S("global"), monthly_cost, details_parts,
                          get_risk_level(S("microsoft.network/frontdoorwebapplicationfirewallpolicies")),
                          up))

detect_orphaned_ip_groups(item, up) ==
    LET name == Get(item, "name", Str(<<>>))
        ip_count == Or(Get(item, "ipAddressCount", Num(0)), Num(0))
        monthly_cost == estimate_ip_group_cost
        details_parts ==
            <<IF NumVal(ip_count) > 0 THEN Fmt(ip_count) \o S(" IP(s)")
              ELSE S("Empty")>>
            \o <<S("No firewall associations")>>
    IN \* ip_count > 0
       IF ~IsNumber(ip_count) THEN Raise
       ELSE Emit(Resource(item, name, S("microsoft.network/ipgroups"),
                          S("IP Group"), <<>>, monthly_cost, details_parts,
                          get_risk_level(S("microsoft.network/ipgroups")), up))

detect_orphaned_load_balancers(item, up) ==
    LET name == Get(item, "name", Str(<<>>))
        sku == Or(Get(item, "sku", Str(S("Standard"))), Str(S("Standard")))
        frontend_count == Or(Get(item, "frontendIPCount", Num(0)), Num(0))
        rules_count == Or(Get(item, "rulesCount", Num(0)), Num(0))
        monthly_cost == estimate_load_balancer_cost(sku.v, NumVal(rules_count), up)
        details_parts ==
            <<S("SKU: ") \o Fmt(sku)>>
            \o When(NumVal(frontend_count) > 0,
                    Fmt(frontend_count) \o S(" Frontend IP(s)"))
            \o When(NumVal(rules_count) > 0, Fmt(rules_count) \o S(" rule(s)"))
            \o <<S("Empty backend")>>
    IN \* sku.lower(), frontend_count > 0, rules - 5 and rules_count > 0
       IF ~IsStr(sku) \/ ~IsNumber(frontend_count) \/ ~IsNumber(rules_count)
       THEN Raise
       ELSE Emit(Resource(item, name, S("microsoft.network/loadbalancers"),
                          S("Load Balancer"), <<>>, monthly_cost, details_parts,
                          get_risk_level(S("microsoft.network/loadbalancers")), up))

\* len(x) of a string, a sequence or a mapping
LenOf(x) == IF IsDict(x) THEN Cardinality(DOMAIN x.v) ELSE Len(x.v)
HasLen(x) == IsStr(x) \/ IsList(x) \/ IsDict(x)

detect_orphaned_nat_gateways(item, up) ==
    LET name == Get(item, "name", Str(<<>>))
        public_ips == Or(Get(item, "publicIpAddresses", Null), List(<<>>))
        public_prefixes == Or(Get(item, "publicIpPrefixes", Null), List(<<>>))
        idle_timeout == Or(Get(item, "idleTimeoutMinutes", Num(4)), Num(4))
        monthly_cost == estimate_nat_gateway_cost
        ip_count == LenOf(public_ips)
        prefix_count == LenOf(public_prefixes)
        details_parts ==
            When(ip_count > 0, DigitsOf(ip_count) \o S(" Public IP(s)"))
            \o When(prefix_count > 0, DigitsOf(prefix_count) \o S(" IP Prefix(es)"))
            \o <<S("Idle: ") \o Fmt(idle_timeout) \o S("min")>>
            \o <<S("Not attached to subnet")>>
    IN \* len(public_ips), len(public_prefixes)
       IF ~HasLen(public_ips) \/ ~HasLen(public_prefixes) THEN Raise
       ELSE Emit(Resource(item, name, S("microsoft.network/natgateways"),
                          S("NAT Gateway"), <<>>, monthly_cost, details_parts,
                          get_risk_level(S("microsoft.network/natgateways")), up))

detect_orphaned_nsgs(item, up) ==
    LET name == Get(item, "name", Str(<<>>))
        security_rules == Or(Get(item, "securityRulesCount", Num(0)), Num(0))
        monthly_cost == estimate_nsg_cost
        details_parts ==
            <<IF NumVal(security_rules) > 0
              THEN Fmt(security_rules) \o S(" custom rules")
              ELSE S("No custom rules")>>
            \o <<S("Not attached")>>
    IN \* security_rules > 0
       IF ~IsNumber(security_rules) THEN Raise
       ELSE Emit(Resource(item, name, S("microsoft.network/networksecuritygroups"),
                          S("NSG"), <<>>, monthly_cost, details_parts,
                          get_risk_level(S("microsoft.network/networksecuritygroups")),
                          up))

detect_orphaned_private_dns_zones(item, up) ==
    LET name == Get(item, "name", Str(<<>>))
        record_count == Or(Get(item, "recordCount", Num(0)), Num(0))
        monthly_cost == estimate_private_dns_zone_cost
        details_parts ==
            <<IF NumVal(record_count) > 0 THEN Fmt(record_count) \o S(" records")
              ELSE S("No records")>>
            \o <<S("No VNet links")>>
    IN \* record_count > 0
       IF ~IsNumber(record_count) THEN Raise
       ELSE Emit(Resource(item, name, S("microsoft.network/privatednszones"),
                          S("Private DNS"), S("global"), monthly_cost, details_parts,
                          get_risk_level(S("microsoft.network/privatednszones")), up))

detect_orphaned_private_endpoints(item, up) ==
    LET name == Get(item, "name", Str(<<>>))
        conn_state == Get(item, "connectionState", Str(S("Disconnected")))
        subnet == Get(item, "subnet", Str(<<>>))
        monthly_cost == estimate_private_endpoint_cost
        details_parts ==
            <<S("State: ") \o Fmt(conn_state)>>
            \o When(Truthy(subnet), S("Subnet: ") \o Fmt(subnet))
    IN Emit(Resource(item, name, S("microsoft.network/privateendpoints"),
                     S("Private Endpoint"), <<>>, monthly_cost, details_parts,
                     get_risk_level(S("microsoft.network/privateendpoints")), up))

\* key in tags: a key of a mapping, an element of a sequence, a substring of
\* a string
In(key, tags) ==
    CASE IsDict(tags) -> \E k \in DOMAIN tags.v : S(k) = key
      [] IsList(tags) -> \E i \in DOMAIN tags.v : tags.v[i] = Str(key)
      [] IsStr(tags) -> Contains(key, tags.v)

\* tags[key] of a mapping
Item(tags, key) == tags.v[CHOOSE k \in DOMAIN tags.v : S(k) = key]

detect_empty_resource_groups(item, up) ==
    LET name == Get(item, "name", Str(<<>>))
        tags == Or(Get(item, "tags", Null), Dict(EmptyRow))
        monthly_cost == estimate_resource_group_cost
        found == In(S("environment"), tags) \/ In(S("purpose"), tags)
                 \/ In(S("owner"), tags)
        details_parts ==
            (IF ~Truthy(tags) THEN <<>>
             ELSE IF In(S("environment"), tags)
             THEN <<S("Env: ") \o Fmt(Item(tags, S("environment")))>>
             ELSE IF In(S("purpose"), tags)
             THEN <<S("Purpose: ") \o Fmt(Item(tags, S("purpose")))>>
             ELSE IF In(S("owner"), tags)
             THEN <<S("Owner: ") \o Fmt(Item(tags, S("owner")))>>
             ELSE <<>>)
            \o <<S("Empty")>>
    IN \* "environment" in tags raises on a number; tags['environment'] on a
       \* string or a sequence that holds the key
       IF IsNumber(tags) \/ (~IsDict(tags) /\ found) THEN Raise
       ELSE Emit([Resource(item, name,
                           S("microsoft.resources/subscriptions/resourcegroups"),
                           S("Resource Group"), <<>>, monthly_cost, details_parts,
                           get_risk_level(S("microsoft.resources/subscriptions/resourcegroups")),
                           up)
                  EXCEPT !.resource_group = name])

detect_orphaned_route_tables(item, up) ==
    LET name == Get(item, "name", Str(<<>>))
        routes_count == Or(Get(item, "routesCount", Num(0)), Num(0))
        disable_bgp == Get(item, "disableBgp", Bool(FALSE))
        monthly_cost == estimate_route_table_cost
        details_parts ==
            <<IF NumVal(routes_count) > 0 THEN Fmt(routes_count) \o S(" routes")
              ELSE S("No routes")>>
            \o When(Truthy(disable_bgp), S("BGP disabled"))
            \o <<S("Not attached")>>
    IN \* routes_count > 0
       IF ~IsNumber(routes_count) THEN Raise
       ELSE Emit(Resource(item, name, S("microsoft.network/routetables"),
                          S("Route Table"), <<>>, monthly_cost, details_parts,
                          get_risk_level(S("microsoft.network/routetables")), up))

detect_orphaned_sql_elastic_pools(item, up) ==
    LET name == Get(item, "name", Str(<<>>))
        sku == Or(Get(item, "sku", Str(S("StandardPool"))), Str(S("StandardPool")))
        tier == Or(Get(item, "tier", Str(S("Standard"))), Str(S("Standard")))
        dtu == Or(Get(item, "dtu", Num(50)), Num(50))
        monthly_cost == estimate_sql_elastic_pool_cost(NumVal(dtu), tier.v, up)
        details_parts ==
            <<S("SKU: ") \o Fmt(sku),
              S("Tier: ") \o Fmt(tier),
              Fmt(dtu) \o S(" eDTU"),
              S("No databases")>>
    IN \* tier.lower(), dtu * rate_per_dtu
       IF ~IsStr(tier) \/ ~IsNumber(dtu) THEN Raise
       ELSE Emit(Resource(item, name, S("microsoft.sql/servers/elasticpools"),
                          S("SQL Elastic Pool"), <<>>, monthly_cost, details_parts,
                          get_risk_level(S("microsoft.sql/servers/elasticpools")),
                          up))

detect_orphaned_traffic_managers(item, up) ==
    LET name == Get(item, "name", Str(<<>>))
        routing_method == Get(item, "trafficRoutingMethod", Str(<<>>))
        status == Get(item, "profileStatus", Str(<<>>))
        dns_name == Get(item, "dnsName", Str(<<>>))
        monthly_cost == estimate_traffic_manager_cost(0, 0, up)
        details_parts ==
            When(Truthy(routing_method), S("Routing: ") \o Fmt(routing_method))
            \o When(Truthy(status), S("Status: ") \o Fmt(status))
            \o When(Truthy(dns_name), S("DNS: ") \o Fmt(dns_name))
            \o <<S("No endpoints")>>
    IN Emit(Resource(item, name, S("microsoft.network/trafficmanagerprofiles"),
                     S("Traffic Manager"), S("global"), monthly_cost, details_parts,
                     get_risk_level(S("microsoft.network/trafficmanagerprofiles")),
                     up))

detect_orphaned_vnet_gateways(item, up) ==
    LET name == Get(item, "name", Str(<<>>))
        sku == Or(Get(item, "sku", Str(S("VpnGw1"))), Str(S("VpnGw1")))
        gateway_type == Or(Get(item, "gatewayType", Str(S("Vpn"))), Str(S("Vpn")))
        monthly_cost == estimate_vnet_gateway_cost(sku.v)
        details_parts ==
            <<S("Type: ") \o Fmt(gateway_type),
              S("SKU: ") \o Fmt(sku),
              S("No connections")>>
    IN \* sku.lower()
       IF ~IsStr(sku) THEN Raise
       ELSE Emit(Resource(item, name, S("microsoft.network/virtualnetworkgateways"),
                          S("VNet Gateway"), <<>>, monthly_cost, details_parts,
                          get_risk_level(S("microsoft.network/virtualnetworkgateways")),
                          up))

detect_unused_public_ips(item, up) ==
    LET name == Get(item, "name", Str(<<>>))
        sku == Or(Get(item, "sku", Str(S("Basic"))), Str(S("Basic")))
        monthly_cost == estimate_public_ip_cost(sku.v)
        ip_address == Get(item, "ipAddress", Str(<<>>))
        allocation == Get(item, "allocationMethod", Str(<<>>))
        tags == Or(Get(item, "tags", Null), Dict(EmptyRow))
        name_lower == Lower(name.v)
        found == In(S("purpose"), tags) \/ In(S("service"), tags)
        details_parts ==
            (IF ~Truthy(tags) THEN <<>>
             ELSE IF In(S("purpose"), tags)
             THEN <<S("Purpose: ") \o Fmt(Item(tags, S("purpose")))>>
             ELSE IF In(S("service"), tags)
             THEN <<S("Service: ") \o Fmt(Item(tags, S("service")))>>
             ELSE <<>>)
            \o (IF Contains(S("aads"), name_lower) \/ Contains(S("adds"), name_lower)
                THEN <<S("Azure AD DS")>>
                ELSE IF Contains(S("vnet"), name_lower) THEN <<S("VNet related")>>
                ELSE IF Contains(S("lb"), name_lower)
                        \/ Contains(S("loadbalancer"), name_lower)
                THEN <<S("Load Balancer")>>
                ELSE IF Contains(S("gw"), name_lower)
                        \/ Contains(S("gateway"), name_lower)
                THEN <<S("Gateway")>>
                ELSE <<>>)
            \o When(Truthy(ip_address), S("IP: ") \o Fmt(ip_address))
            \o <<S("SKU: ") \o Fmt(sku)>>
            \o When(Truthy(allocation), allocation.v)
    IN \* sku.lower(), name.lower(), "purpose" in tags and tags['purpose'],
       \* join() of an allocation that is not a string
       IF \/ ~IsStr(sku)
          \/ ~IsStr(name)
          \/ IsNumber(tags) \/ (~IsDict(tags) /\ found)
          \/ (Truthy(allocation) /\ ~IsStr(allocation))
       THEN Raise
       ELSE Emit(Resource(item, name, S("microsoft.network/publicipaddresses"),
                          S("Public IP"), <<>>, monthly_cost, details_parts,
                          get_risk_level(S("microsoft.network/publicipaddresses")),
                          up))

\* The timestamps datetime.fromisoformat parses, among those the rows hold.
IsoTimestamps == {S("2024-01-15T10:30:00Z"), S("2023-06-01")}
ParsesAsTimestamp(x) == IsStr(x) /\ x.v \in IsoTimestamps

\* x[:n] of a string
Prefix(s, n) == SubSeq(s, 1, IF Len(s) < n THEN Len(s) ELSE n)

\* days is the whole number of days from the expiration to the clock's now.
detect_expired_certificates(item, up, days) ==
    LET name == Get(item, "name", Str(<<>>))
        exp_date == Get(item, "expirationDate", Str(<<>>))
        issuer == Get(item, "issuer", Str(<<>>))
        subject == Get(item, "subjectName", Str(<<>>))
        thumbprint == Get(item, "thumbprint", Str(<<>>))
        monthly_cost == estimate_certificate_cost
        details_parts ==
            When(Truthy(exp_date) /\ ParsesAsTimestamp(exp_date),
                 S("Expired ") \o DigitsOf(days) \o S(" days ago"))
            \o When(Truthy(subject) /\ Len(subject.v) < 40,
                    S("Subject: ") \o Fmt(subject))
            \o When(Truthy(issuer) /\ Len(issuer.v) < 30,
                    S("Issuer: ") \o Fmt(issuer))
            \o When(Truthy(thumbprint),
                    S("Thumb: ") \o Prefix(thumbprint.v, 8) \o S("..."))
        record == Resource(item, name, S("microsoft.web/certificates"),
                           S("Certificate"), <<>>, monthly_cost, details_parts,
                           get_risk_level(S("microsoft.web/certificates")), up)
    IN \* len(subject), len(issuer), thumbprint[:8]
       IF \/ (Truthy(subject) /\ ~IsStr(subject))
          \/ (Truthy(issuer) /\ ~IsStr(issuer))
          \/ (Truthy(thumbprint) /\ ~IsStr(thumbprint))
       THEN Raise
       ELSE Emit(IF details_parts = <<>>
                 THEN [record EXCEPT !.details = S("Expired certificate")]
                 ELSE record)

\* The details fragment a tag gives: the first of keys that tags holds, with
\* its label; nothing when tags is empty or holds none of them.
TagFragment(tags, keys, labels) ==
    IF ~Truthy(tags) \/ ~\E i \in DOMAIN keys : In(keys[i], tags) THEN <<>>
    ELSE LET i == CHOOSE i \in DOMAIN keys :
                      /\ In(keys[i], tags)
                      /\ \A j \in 1..(i - 1) : ~In(keys[j], tags)
         IN <<labels[i] \o Fmt(Item(tags, keys[i]))>>

\* "k in tags" raises on a number, and tags[k] on a string or a sequence
\* that holds one of keys.
TagsRaise(tags, keys) ==
    IsNumber(tags) \/ (~IsDict(tags) /\ \E i \in DOMAIN keys : In(keys[i], tags))

\* _format_age past its guard, days being the whole number of days from the
\* creation to the clock's now
AgeOf(days) ==
    IF days < 1 THEN S("today")
    ELSE IF days = 1 THEN S("1 day ago")
    ELSE IF days < 30 THEN DigitsOf(days) \o S(" days ago")
    ELSE IF days < 365
    THEN DigitsOf(days \div 30) \o S(" month")
         \o (IF days \div 30 > 1 THEN S("s") ELSE <<>>) \o S(" ago")
    ELSE DigitsOf(days \div 365) \o S(" year")
         \o (IF days \div 365 > 1 THEN S("s") ELSE <<>>) \o S(" ago")

\* Whatever goes wrong in the parse gives "".
_format_age(time_created, days) ==
    IF ~Truthy(time_created) \/ ~ParsesAsTimestamp(time_created) THEN <<>>
    ELSE AgeOf(days)

\* \d+_ at the start of r
DigitsThenUnderscore(r) ==
    \E n \in 1..(Len(r) - 1) :
        /\ \A k \in 1..n : IsDigit(r[k])
        /\ r[n + 1] = "_"

\* The rest of disk_name after its first i characters matches
\* _(Os|Data)Disk_\d+_ , whatever the case.
OsDiskAt(disk_name, i) ==
    LET rest == Lower(SubSeq(disk_name, i + 1, Len(disk_name)))
    IN \/ /\ StartsWith(rest, S("_osdisk_"))
          /\ DigitsThenUnderscore(SubSeq(rest, 9, Len(rest)))
       \/ /\ StartsWith(rest, S("_datadisk_"))
          /\ DigitsThenUnderscore(SubSeq(rest, 11, Len(rest)))

DashDiskAt(disk_name, i) ==
    LET rest == Lower(SubSeq(disk_name, i + 1, Len(disk_name)))
    IN StartsWith(rest, S("-osdisk")) \/ StartsWith(rest, S("-datadisk"))

\* The shortest group (.+?) for which the rest matches; <<>> stands for None.
_extract_vm_name(disk_name) ==
    LET os == {i \in 1..Len(disk_name) : OsDiskAt(disk_name, i)}
        dash == {i \in 1..Len(disk_name) : DashDiskAt(disk_name, i)}
        first(I) == CHOOSE i \in I : \A j \in I : i <= j
    IN IF os # {} THEN SubSeq(disk_name, 1, first(os))
       ELSE IF dash # {} THEN SubSeq(disk_name, 1, first(dash))
       ELSE <<>>

detect_unattached_disks(item, up, days) ==
    LET name == Get(item, "name", Str(<<>>))
        size_gb == Or(Get(item, "diskSizeGB", Num(0)), Num(0))
        sku == Or(Get(item, "sku", Str(S("Standard_LRS"))), Str(S("Standard_LRS")))
        monthly_cost == estimate_disk_cost(NumVal(size_gb), sku.v, up)
        time_created == Get(item, "timeCreated", Null)
        tags == Or(Get(item, "tags", Null), Dict(EmptyRow))
        vm_name == _extract_vm_name(name.v)
        age == _format_age(time_created, days)
        keys == <<S("purpose"), S("application"), S("environment")>>
        details_parts ==
            When(vm_name # <<>>, S("VM: ") \o vm_name)
            \o <<Fmt(size_gb) \o S(" GB")>>
            \o When(age # <<>>, S("Created ") \o age)
            \o TagFragment(tags, keys, <<S("Purpose: "), S("App: "), S("Env: ")>>)
    IN \* size_gb * rate_per_gb, tier.lower(), re.match(pattern, disk_name)
       IF ~IsNumber(size_gb) \/ ~IsStr(sku) \/ ~IsStr(name) \/ TagsRaise(tags, keys)
       THEN Raise
       ELSE Emit(Resource(item, name, S("microsoft.compute/disks"),
                          S("Managed Disk"), <<>>, monthly_cost, details_parts,
                          get_risk_level(S("microsoft.compute/disks")), up))

\* The first of the suffixes -nic, VMNic, _nic, nic that nic_name ends with
\* is cut off; otherwise a name that ends with digits gives what is before
\* them when that is longer than 3. <<>> stands for None and for "".
_extract_vm_name_from_nic(nic_name) ==
    LET lower == Lower(nic_name)
        n == Len(nic_name)
        trailing == {k \in 1..(n - 1) :
                        \A j \in (k + 1)..n : IsDigit(nic_name[j])}
        group == CHOOSE k \in trailing : \A j \in trailing : k <= j
    IN IF EndsWith(lower, S("-nic")) THEN SubSeq(nic_name, 1, n - 4)
       ELSE IF EndsWith(lower, S("vmnic")) THEN SubSeq(nic_name, 1, n - 5)
       ELSE IF EndsWith(lower, S("_nic")) THEN SubSeq(nic_name, 1, n - 4)
       ELSE IF EndsWith(lower, S("nic")) THEN SubSeq(nic_name, 1, n - 3)
       ELSE IF trailing # {} /\ group > 3 THEN SubSeq(nic_name, 1, group)
       ELSE <<>>

\* The loop over ip_configs: "raise" at a config that is not a mapping or
\* whose properties is not one, "yes" at the first config with a public IP
\* address (the loop breaks there), "no" at the end.
RECURSIVE PublicIPIn(_)
PublicIPIn(configs) ==
    IF configs = <<>> THEN "no"
    ELSE LET config == Head(configs)
             properties == Get(config.v, "properties", Dict(EmptyRow))
         IN IF ~IsDict(config) \/ ~IsDict(properties) THEN "raise"
            ELSE IF Truthy(Get(properties.v, "publicIPAddress", Null)) THEN "yes"
            ELSE PublicIPIn(Tail(configs))

detect_orphaned_nics(item, up) ==
    LET name == Get(item, "name", Str(<<>>))
        ip_configs == Or(Get(item, "ipConfigs", Null), List(<<>>))
        tags == Or(Get(item, "tags", Null), Dict(EmptyRow))
        vm_name == _extract_vm_name_from_nic(name.v)
        has_public_ip == PublicIPIn(ip_configs.v) = "yes"
        public_ip_cost == estimate_public_ip_cost(S("Standard"))
        monthly_cost == estimate_nic_cost
                        + (IF has_public_ip THEN public_ip_cost ELSE 0)
        keys == <<S("vm"), S("purpose")>>
        details_parts ==
            When(Truthy(tags) /\ In(S("vm"), tags),
                 S("VM: ") \o Fmt(Item(tags, S("vm"))))
            \o When(vm_name # <<>>, S("VM: ") \o vm_name)
            \o <<IF has_public_ip
                 THEN S("Has Public IP (+$") \o Fixed2(public_ip_cost, up)
                      \o S("/mo)")
                 ELSE S("No Public IP")>>
            \o When(Truthy(tags) /\ ~In(S("vm"), tags) /\ In(S("purpose"), tags),
                    S("Purpose: ") \o Fmt(Item(tags, S("purpose"))))
    IN \* nic_name.lower(), for config in ip_configs, config.get(...).get(...),
       \* "vm" in tags and tags['vm']
       IF \/ ~IsStr(name)
          \/ ~IsList(ip_configs)
          \/ PublicIPIn(ip_configs.v) = "raise"
          \/ TagsRaise(tags, keys)
       THEN Raise
       ELSE Emit(Resource(item, name, S("microsoft.network/networkinterfaces"),
                          S("Network Interface"), <<>>, monthly_cost,
                          details_parts,
                          get_risk_level(S("microsoft.network/networkinterfaces")),
                          up))

VM_SIZE_DISK_COSTS ==
    <<<<S("standard_b1s"), 5000>>, <<S("standard_b1ms"), 5000>>,
      <<S("standard_b2s"), 10000>>, <<S("standard_b2ms"), 10000>>,
      <<S("standard_b4ms"), 20000>>, <<S("standard_d2s_v3"), 15000>>,
      <<S("standard_d4s_v3"), 30000>>, <<S("standard_d2_v3"), 15000>>,
      <<S("standard_d4_v3"), 30000>>, <<S("standard_ds1_v2"), 10000>>,
      <<S("standard_ds2_v2"), 15000>>, <<S("default"), 10000>>>>

\* An exact match first, then the first key that size_lower contains, then
\* the default entry.
estimate_stopped_vm_cost(vm_size) ==
    LET size_lower == Lower(vm_size)
        T == VM_SIZE_DISK_COSTS
        exact == {i \in DOMAIN T : T[i][1] = size_lower}
        partial == {i \in DOMAIN T : Contains(T[i][1], size_lower)}
        first(I) == CHOOSE i \in I : \A j \in I : i <= j
    IN IF exact # {} THEN T[first(exact)][2]
       ELSE IF partial # {} THEN T[first(partial)][2]
       ELSE T[Len(T)][2]

detect_stopped_vms(item, up, days) ==
    LET name == Get(item, "name", Str(<<>>))
        vm_size == Or(Get(item, "vmSize", Str(<<>>)), Str(<<>>))
        os_type == Get(item, "osType", Str(<<>>))
        time_created == Get(item, "timeCreated", Null)
        tags == Or(Get(item, "tags", Null), Dict(EmptyRow))
        monthly_cost == estimate_stopped_vm_cost(vm_size.v)
        size_display ==
            Replace(Replace(vm_size.v, S("Standard_"), <<>>), <<"_">>, <<" ">>)
        age == _format_age(time_created, days)
        keys == <<S("purpose"), S("environment")>>
        details_parts ==
            TagFragment(tags, keys, <<S("Purpose: "), S("Env: ")>>)
            \o When(Truthy(vm_size), size_display)
            \o When(Truthy(os_type), os_type.v)
            \o <<S("Deallocated")>>
            \o When(age # <<>>, S("Created ") \o age)
    IN \* vm_size.lower(), join() of an os_type that is not a string,
       \* "purpose" in tags and tags['purpose']
       IF \/ ~IsStr(vm_size)
          \/ (Truthy(os_type) /\ ~IsStr(os_type))
          \/ TagsRaise(tags, keys)
       THEN Raise
       ELSE Emit(Resource(item, name, S("microsoft.compute/virtualmachines"),
                          S("Virtual Machine"), <<>>, monthly_cost, details_parts,
                          get_risk_level(S("microsoft.compute/virtualmachines")),
                          up))

\* --------------------------------------------------------- the registry
ALL_DETECTORS ==
    <<"detect_orphaned_ddos_plans", "detect_orphaned_app_gateways",
      "detect_orphaned_vnet_gateways", "detect_orphaned_sql_elastic_pools",
      "detect_orphaned_app_service_plans", "detect_orphaned_nat_gateways",
      "detect_orphaned_load_balancers", "detect_unattached_disks",
      "detect_unused_public_ips", "detect_orphaned_traffic_managers",
      "detect_orphaned_frontdoor_waf_policies",
      "detect_orphaned_private_endpoints", "detect_stopped_vms",
      "detect_orphaned_nics", "detect_orphaned_nsgs",
      "detect_orphaned_route_tables", "detect_orphaned_availability_sets",
      "detect_orphaned_ip_groups", "detect_orphaned_private_dns_zones",
      "detect_empty_resource_groups", "detect_failed_api_connections",
      "detect_expired_certificates">>

\* The detectors that read the clock.
ReadsClock(d) ==
    d \in {"detect_unattached_disks", "detect_stopped_vms",
           "detect_expired_certificates"}

\* One pass of detector d's loop, over the row item.
DetectRow(d, item, up, days) ==
    CASE d = "detect_orphaned_ddos_plans" -> detect_orphaned_ddos_plans(item, up)
      [] d = "detect_orphaned_app_gateways" -> detect_orphaned_app_gateways(item, up)
      [] d = "detect_orphaned_vnet_gateways" -> detect_orphaned_vnet_gateways(item, up)
      [] d = "detect_orphaned_sql_elastic_pools" ->
            detect_orphaned_sql_elastic_pools(item, up)
      [] d = "detect_orphaned_app_service_plans" ->
            detect_orphaned_app_service_plans(item, up)
      [] d = "detect_orphaned_nat_gateways" -> detect_orphaned_nat_gateways(item, up)
      [] d = "detect_orphaned_load_balancers" ->
            detect_orphaned_load_balancers(item, up)
      [] d = "detect_unattached_disks" -> detect_unattached_disks(item, up, days)
      [] d = "detect_unused_public_ips" -> detect_unused_public_ips(item, up)
      [] d = "detect_orphaned_traffic_managers" ->
            detect_orphaned_traffic_managers(item, up)
      [] d = "detect_orphaned_frontdoor_waf_policies" ->
            detect_orphaned_frontdoor_waf_policies(item, up)
      [] d = "detect_orphaned_private_endpoints" ->
            detect_orphaned_private_endpoints(item, up)
      [] d = "detect_stopped_vms" -> detect_stopped_vms(item, up, days)
      [] d = "detect_orphaned_nics" -> detect_orphaned_nics(item, up)
      [] d = "detect_orphaned_nsgs" -> detect_orphaned_nsgs(item, up)
      [] d = "detect_orphaned_route_tables" -> detect_orphaned_route_tables(item, up)
      [] d = "detect_orphaned_availability_sets" ->
            detect_orphaned_availability_sets(item, up)
      [] d = "detect_orphaned_ip_groups" -> detect_orphaned_ip_groups(item, up)
      [] d = "detect_orphaned_private_dns_zones" ->
            detect_orphaned_private_dns_zones(item, up)
      [] d = "detect_empty_resource_groups" -> detect_empty_resource_groups(item, up)
      [] d = "detect_failed_api_connections" ->
            detect_failed_api_connections(item, up)
      [] d = "detect_expired_certificates" ->
            detect_expired_certificates(item, up, days)

\* for item in results: ... resources.append({...}); return resources. An
\* exception in one pass leaves the function, and with it the records of the
\* passes before.
RECURSIVE DetectorLoop(_, _, _, _)
DetectorLoop(d, rows, up, days) ==
    IF rows = <<>> THEN [raised |-> FALSE, resources |-> <<>>]
    ELSE LET before == DetectorLoop(d, SubSeq(rows, 1, Len(rows) - 1), up, days)
             pass == DetectRow(d, rows[Len(rows)], up, days)
         IN IF before.raised \/ pass.raised
            THEN [raised |-> TRUE, resources |-> <<>>]
            ELSE [raised |-> FALSE,
                  resources |-> Append(before.resources, pass.record)]

\* ------------------------------------------------------ rows of a query
\* Fields a sample row holds at most, and rows a sample result holds at most.
MaxPresent == 2
MaxDetRows == 2

T(text) == Str(S(text))

\* The fields every query projects.
CommonFields ==
    "name" :> {Null, T("res1")} @@
    "id" :> {Null, Str(<<>>), T("/subscriptions/s1/x/1")} @@
    "resourceGroup" :> {T("rg1")} @@
    "location" :> {Null, T("eastus")} @@
    "subscriptionId" :> {T("s1")}

TagSamples ==
    {Null, Dict("purpose" :> T("backup")), Dict("environment" :> T("dev")),
     Dict("environment" :> T("dev") @@ "application" :> T("shop")),
     Dict("purpose" :> Null @@ "owner" :> T("ann")),
     Dict("vm" :> T("web01") @@ "purpose" :> T("test")),
     Dict("service" :> Num(7)), Dict("team" :> T("core")),
     T("purpose"), T("misc"), List(<<T("owner")>>), List(<<T("x")>>), Num(1)}

TimeSamples ==
    {Null, T("2024-01-15T10:30:00Z"), T("2023-06-01"), T("yesterday"), Num(5)}

IpConfigSamples ==
    LET withIp == Dict("properties" :> Dict("publicIPAddress" :> Dict("id" :> T("/ip/1"))))
        noIp == Dict("properties" :> Dict("publicIPAddress" :> Null))
    IN {Null, List(<<>>), List(<<withIp>>), List(<<noIp>>), List(<<noIp, withIp>>),
        List(<<Dict(EmptyRow)>>), List(<<Null>>), List(<<withIp, Null>>),
        List(<<Dict("properties" :> Null)>>), List(<<T("x")>>), T("x"), Num(1)}

\* The fields of detector d's query beside the common ones, each with the
\* values the sample rows give it: absent is always a case, null nearly
\* always, then well-formed values and values of another type.
OwnFields(d) ==
    CASE d = "detect_orphaned_ddos_plans" ->
            "provisioningState" :> {Null, T("Succeeded"), Str(<<>>), Num(3)}
      [] d = "detect_orphaned_app_gateways" ->
            "tier" :> {Null, T("WAF_v2"), T("Standard"), Num(3)} @@
            "capacity" :> {Null, Num(0), Num(3), Num(10), Num(0 - 40), T("2")}
      [] d = "detect_orphaned_vnet_gateways" ->
            "sku" :> {Null, T("VpnGw2AZ"), T("Vpn_Gw-1"), T("zzz"), Num(1)} @@
            "gatewayType" :> {Null, T("ExpressRoute")}
      [] d = "detect_orphaned_sql_elastic_pools" ->
            "sku" :> {Null, T("PremiumPool")} @@
            "tier" :> {Null, T("Premium"), T("BASIC"), T("x"), Num(2)} @@
            "dtu" :> {Null, Num(0), Num(5), Num(125), Num(0 - 10), T("50")}
      [] d = "detect_orphaned_app_service_plans" ->
            "sku" :> {Null, T("B1"), T("P1v2")} @@
            "tier" :> {Null, T("Basic")} @@
            "size" :> {Null, T("B1"), T("P1v2"), T("p1_v2"), T("F1"), T("X9"), Num(1)} @@
            "capacity" :> {Null, Num(0), Num(1), Num(2), Num(0 - 1), T("2")} @@
            "kind" :> {Null, T("linux"), T("app,linux"), T("functionapp"),
                       T("Windows"), T("app"), Num(1)}
      [] d = "detect_orphaned_nat_gateways" ->
            "publicIpAddresses" :> {Null, List(<<>>), List(<<Dict("id" :> T("/ip/1"))>>),
                                    T("ab"), Num(2)} @@
            "publicIpPrefixes" :> {Null, List(<<Null, Null>>)} @@
            "idleTimeoutMinutes" :> {Null, Num(0), Num(10), T("x")}
      [] d = "detect_orphaned_load_balancers" ->
            "sku" :> {Null, T("Basic"), T("Standard"), Num(1)} @@
            "frontendIPCount" :> {Null, Num(1), T("1")} @@
            "rulesCount" :> {Null, Num(3), Num(8), Num(0 - 2), T("3")}
      [] d = "detect_unattached_disks" ->
            "name" :> {Null, T("web_OsDisk_1_ab"), T("db-datadisk"),
                       T("x_DataDisk_a_"), T("a_b_datadisk_12_c"), T("disk1"),
                       Str(<<>>), Num(4)} @@
            "diskSizeGB" :> {Null, Num(128), Num(1), Num(0 - 4), T("128")} @@
            "sku" :> {Null, T("Premium_LRS"), T("StandardSSD_LRS"), Num(0), Num(1)} @@
            "timeCreated" :> TimeSamples @@
            "tags" :> TagSamples
      [] d = "detect_unused_public_ips" ->
            "name" :> {Null, T("aads-ip"), T("my-vnet-ip"), T("LB1"), T("gw"),
                       T("ip1")} @@
            "sku" :> {Null, T("Standard"), T("standard"), T("Basic"), Num(1)} @@
            "ipAddress" :> {Null, T("1.2.3.4"), Str(<<>>)} @@
            "allocationMethod" :> {Null, T("Static"), Num(1)} @@
            "tags" :> TagSamples
      [] d = "detect_orphaned_traffic_managers" ->
            "trafficRoutingMethod" :> {Null, T("Priority")} @@
            "profileStatus" :> {Null, T("Enabled"), Num(0)} @@
            "dnsName" :> {Null, T("a.tm.net")}
      [] d = "detect_orphaned_frontdoor_waf_policies" ->
            "customRulesCount" :> {Null, Num(0), Num(3), Num(0 - 7), T("3")} @@
            "managedRulesCount" :> {Null, Num(2), T("x")} @@
            "policySettings" :> {Null, Dict("mode" :> T("Prevention")),
                                 Dict("mode" :> Null), Dict(EmptyRow), T("x")}
      [] d = "detect_orphaned_private_endpoints" ->
            "connectionState" :> {Null, T("Rejected")} @@
            "subnet" :> {Null, T("sn1")}
      [] d = "detect_stopped_vms" ->
            "vmSize" :> {Null, T("Standard_B2ms"), T("Standard_D2s_v3"),
                         T("standard_b1s_promo"), T("Standard_X"), T("default"),
                         Num(2)} @@
            "osType" :> {Null, T("Linux"), Num(1)} @@
            "timeCreated" :> TimeSamples @@
            "tags" :> TagSamples
      [] d = "detect_orphaned_nics" ->
            "name" :> {Null, T("vm1-nic"), T("webVMNic"), T("web01"), T("nic"),
                       T("abcd123"), T("2024"), T("eth"), Num(4)} @@
            "ipConfigs" :> IpConfigSamples @@
            "tags" :> TagSamples
      [] d = "detect_orphaned_nsgs" ->
            "securityRulesCount" :> {Null, Num(0), Num(4), T("4")}
      [] d = "detect_orphaned_route_tables" ->
            "routesCount" :> {Null, Num(2), T("2")} @@
            "disableBgp" :> {Null, Bool(TRUE), Bool(FALSE), T("no")}
      [] d = "detect_orphaned_availability_sets" ->
            "faultDomains" :> {Null, Num(3), T("x")} @@
            "updateDomains" :> {Null, Num(0), Num(20)} @@
            "sku" :> {Null, T("Aligned")}
      [] d = "detect_orphaned_ip_groups" ->
            "ipAddressCount" :> {Null, Num(0), Num(2), T("2")}
      [] d = "detect_orphaned_private_dns_zones" ->
            "recordCount" :> {Null, Num(1), Num(12), List(<<>>), List(<<Null>>)}
      [] d = "detect_empty_resource_groups" ->
            "tags" :> TagSamples
      [] d = "detect_failed_api_connections" ->
            "status" :> {Null, T("Error"), T("Unauthenticated")} @@
            "errorMessage" :> {Null, T("Token expired"), Num(5), List(<<T("a")>>),
                               T("The refresh token has expired due to inactivity!!")} @@
            "api" :> {Null, T("office365")}
      [] d = "detect_expired_certificates" ->
            "expirationDate" :> TimeSamples @@
            "issuer" :> {Null, T("DigiCert"), Num(1),
                         T("An Issuing Authority Of Thirty")} @@
            "subjectName" :> {Null, T("CN=example.com"),
                              T("CN=a-subject-name-of-forty-characters.io")} @@
            "thumbprint" :> {Null, T("ABCDEF0123456789"), T("AB12"), Num(1)}

\* The detector's own table takes precedence for a field both tables hold.
Fields(d) == OwnFields(d) @@ CommonFields

\* The rows that hold exactly the fields D, each with one of its values.
RECURSIVE RowsWith(_, _)
RowsWith(F, D) ==
    IF D = {} THEN {EmptyRow}
    ELSE LET k == CHOOSE k \in D : TRUE
         IN {(k :> v) @@ r : v \in F[k], r \in RowsWith(F, D \ {k})}

\* The rows in which at most n fields are present.
SampleRows(d, n) ==
    UNION {RowsWith(Fields(d), D) :
             D \in {D \in SUBSET DOMAIN Fields(d) : Cardinality(D) <= n}}

\* The rows the specification gives as examples.
ExampleRows(d) ==
    IF d = "detect_orphaned_app_service_plans"
    THEN {"sku" :> T("B1") @@ "tier" :> T("Basic") @@ "size" :> T("B1")
          @@ "capacity" :> Num(2) @@ "kind" :> T("app,linux")}
    ELSE {}

\* Rows in which every optional field is missing, with and without an id.
BareRows ==
    {EmptyRow,
     "id" :> T("/subscriptions/s1/x/1"),
     "id" :> T("/subscriptions/s1/x/2") @@ "name" :> T("res2"),
     "id" :> T("/subscriptions/s1/x/1") @@ "name" :> T("res1")
        @@ "resourceGroup" :> T("rg1") @@ "location" :> T("eastus")
        @@ "subscriptionId" :> T("s1")}

RECURSIVE SeqsOf(_, _)
SeqsOf(A, n) ==
    IF n = 0 THEN {<<>>}
    ELSE {Append(s, a) : s \in SeqsOf(A, n - 1), a \in A}

\* What query_func returns: no row, one sample row, or several bare rows.
SampleResults(d) ==
    {<<>>}
    \cup {<<item>> : item \in SampleRows(d, MaxPresent) \cup ExampleRows(d)}
    \cup UNION {SeqsOf(BareRows, n) : n \in 2..MaxDetRows}

\* The whole days between a row's timestamp and the clock's now.
DaysSamples == {0 - 1, 0, 1, 12, 45, 30, 400, 800}

\* ====================================== grid buttons, portal links, export
\* Records the grid holds at most, and button clicks in a session.
MaxShown == 2
MaxClicks == 2

\* f"https://portal.azure.com/#@{tenant_id}/resource{resource_id}"
get_portal_url(resource_id, tenant) ==
    S("https://portal.azure.com/#@") \o Fmt(tenant) \o S("/resource")
    \o Fmt(resource_id)

\* The tenant alone decides.
HasTenant(tenant, record) == Truthy(tenant)

\* if tenant_id and resource_id:
Linkable(tenant, record) == Truthy(tenant) /\ Truthy(record.id)

\* What a cell of an exported row holds for a value: nothing for None.
Cell(x) == IF IsNull(x) THEN <<>> ELSE Fmt(x)

RiskText == "low" :> S("low") @@ "medium" :> S("medium") @@ "high" :> S("high")

\* The row export_to_csv writes for a resource.
CsvRow(resource, tenant) ==
    [name |-> Cell(resource.name),
     type_display |-> resource.type_display,
     risk_level |-> Upper(RiskText[resource.risk_level]),
     safe_to_delete |-> get_resource_info(resource.type).safe_to_delete,
     resource_group |-> Cell(resource.resource_group),
     location |-> Cell(resource.location),
     cost_display |-> resource.cost_display,
     details |-> resource.details,
     resource_id |-> Cell(resource.id),
     portal_url |-> IF Linkable(tenant, resource)
                    THEN get_portal_url(resource.id, tenant) ELSE <<>>]

\* The row export_to_excel writes: the same columns without the resource id.
ExcelRow(resource, tenant) ==
    [name |-> Cell(resource.name),
     type_display |-> resource.type_display,
     risk_level |-> Upper(RiskText[resource.risk_level]),
     safe_to_delete |-> get_resource_info(resource.type).safe_to_delete,
     resource_group |-> Cell(resource.resource_group),
     location |-> Cell(resource.location),
     cost_display |-> resource.cost_display,
     details |-> resource.details,
     portal_url |-> IF Linkable(tenant, resource)
                    THEN get_portal_url(resource.id, tenant) ELSE <<>>]

\* The rows the batches are made from: the id is absent, null, empty or
\* given.
IdRows ==
    {EmptyRow, "id" :> Null, "id" :> Str(<<>>),
     "id" :> T("/subscriptions/s1/x/1") @@ "name" :> T("res1")}

\* The detectors the batches come from.
GridDetectors == {"detect_orphaned_nsgs", "detect_orphaned_ddos_plans"}

\* What the grid's buttons and the exports leave alone.
sessionVars == <<auth, subscription_id, is_scanning, scan_cancelled, action_btn,
                 export_btn, last_log, queue, timers, nscans, pc, idx, out,
                 sent, cancel_at, queried>>

InitGrid ==
    /\ mode = "grid"
    /\ AppInit
    /\ ScannerInit
    /\ rg_client = TRUE
    /\ FormatCostIdle
    /\ ResourceInfoIdle
    /\ DetectIdle
    /\ LookupIdle
    /\ FilterInit
    /\ tenant_id \in {Null, Str(<<>>), T("t1")}
    /\ delivered = <<>>
    /\ clicks = <<>>
    /\ browser = <<>>
    /\ clipboard = ClipboardBefore
    /\ csv_rows = [written |-> FALSE, rows |-> <<>>]
    /\ xlsx_rows = [written |-> FALSE, rows |-> <<>>]

\* The order of the risk level strings: "high" < "low" < "medium".
RiskOrder == "high" :> 1 @@ "low" :> 2 @@ "medium" :> 3

\* key=lambda x: x.get(self.sort_column, ""), for the columns whose header
\* is clicked here: Cost/Mo and Safety.
SortKey(resource, column) ==
    IF column = "cost" THEN resource.cost ELSE RiskOrder[resource.risk_level]

\* x comes before y in list.sort(key=..., reverse=reverse) when they differ
\* in the key.
Before(x, y, column, reverse) ==
    IF reverse THEN SortKey(x, column) > SortKey(y, column)
    ELSE SortKey(x, column) < SortKey(y, column)

RECURSIVE Sorted(_, _, _)
\* list.sort(key=..., reverse=reverse): stable, records of equal key keep
\* their order.
Sorted(list, column, reverse) ==
    IF list = <<>> THEN <<>>
    ELSE LET x == list[Len(list)]
             front == Sorted(SubSeq(list, 1, Len(list) - 1), column, reverse)
             p == Cardinality({k \in DOMAIN front : ~Before(x, front[k], column, reverse)})
         IN SubSeq(front, 1, p) \o <<x>> \o SubSeq(front, p + 1, Len(front))

\* ResourceGrid._sort_and_display: what filtered_resources becomes
SortAndDisplay(list, column, reverse) ==
    IF column # "" THEN Sorted(list, column, reverse) ELSE list

\* The tests of ResourceGrid._apply_all_filters on one record.
PassesFilters(r, risk, text) ==
    /\ Truthy(risk) => Str(RiskText[r.risk_level]) = risk
    /\ text # <<>> =>
          \/ Contains(Lower(text), Lower(r.name.v))
          \/ Contains(Lower(text), Lower(r.type_display))
          \/ Contains(Lower(text), Lower(r.resource_group.v))
          \/ Contains(Lower(text), Lower(r.location.v))

\* ResourceGrid._apply_all_filters: what filtered_resources becomes
ApplyAllFilters(list, risk, text, column, reverse) ==
    LET Test(r) == PassesFilters(r, risk, text)
    IN SortAndDisplay(SelectSeq(list, Test), column, reverse)

\* The sessions in which the grid receives records: "grid" for its buttons
\* and the exports, "grid_ops" for filtering, sorting and clearing.
GridModes == {"grid", "grid_ops"}

\* App._add_results(resources) -> grid.add_resources(resources), with the
\* list a detector returned. The deliveries are logged in the sessions of
\* the buttons and exports.
AddResources ==
    /\ mode \in GridModes
    /\ Len(resources) < MaxShown
    /\ \E d \in GridDetectors, item \in IdRows, up \in BOOLEAN :
         LET new_resources == DetectorLoop(d, <<item>>, up, 0).resources
         IN /\ Len(resources) + Len(new_resources) <= MaxShown
            /\ resources' = resources \o new_resources
            /\ filtered_resources' =
                   SortAndDisplay(resources \o new_resources, sort_column,
                                  sort_reverse)
            /\ delivered' = IF mode = "grid" THEN delivered \o new_resources
                            ELSE delivered
    /\ UNCHANGED <<mode, sessionVars, cliVars, lookupVars, cost, cost_display, cost_rendered,
                   resource_type, info, detVars, filterVars, tenant_id, clicks, browser,
                   clipboard, csv_rows, xlsx_rows>>

\* ResourceGrid._open_resource(resource): the Open button of a row
OpenResource ==
    /\ mode = "grid"
    /\ Len(clicks) < MaxClicks
    /\ \E i \in DOMAIN filtered_resources :
         LET resource == filtered_resources[i]
         IN /\ clicks' = Append(clicks, [button |-> "Open", resource |-> resource])
            /\ browser' = IF Linkable(tenant_id, resource)
                          THEN Append(browser, get_portal_url(resource.id, tenant_id))
                          ELSE browser
    /\ UNCHANGED <<mode, guiVars, cliVars, lookupVars, cost, cost_display, cost_rendered,
                   resource_type, info, detVars, filterVars, tenant_id, delivered, clipboard,
                   csv_rows, xlsx_rows>>

\* ResourceGrid._copy_url(resource): the Copy button of a row
CopyUrl ==
    /\ mode = "grid"
    /\ Len(clicks) < MaxClicks
    /\ \E i \in DOMAIN filtered_resources :
         LET resource == filtered_resources[i]
         IN /\ clicks' = Append(clicks, [button |-> "Copy", resource |-> resource])
            /\ clipboard' = IF Linkable(tenant_id, resource)
                            THEN get_portal_url(resource.id, tenant_id)
                            ELSE clipboard
    /\ UNCHANGED <<mode, guiVars, cliVars, lookupVars, cost, cost_display, cost_rendered,
                   resource_type, info, detVars, filterVars, tenant_id, delivered, browser,
                   csv_rows, xlsx_rows>>

\* App._auto_save_csv -> export_to_csv(grid.get_filtered_resources(), ...,
\* tenant_id=scanner.tenant_id or ""); nothing is written for an empty grid.
ExportCsv ==
    /\ mode = "grid"
    /\ ~csv_rows.written
    /\ filtered_resources # <<>>
    /\ csv_rows' = [written |-> TRUE,
                    rows |-> [i \in DOMAIN filtered_resources |->
                                CsvRow(filtered_resources[i],
                                       Or(tenant_id, Str(<<>>)))]]
    /\ UNCHANGED <<mode, guiVars, cliVars, lookupVars, cost, cost_display, cost_rendered,
                   resource_type, info, detVars, filterVars, tenant_id, delivered, clicks,
                   browser, clipboard, xlsx_rows>>

\* App._on_export -> export_to_excel(grid.get_filtered_resources(), filepath,
\* scanner.tenant_id or ""); the Export button is enabled once a scan has
\* found resources.
ExportExcel ==
    /\ mode = "grid"
    /\ ~xlsx_rows.written
    /\ Len(resources) > 0
    /\ xlsx_rows' = [written |-> TRUE,
                     rows |-> [i \in DOMAIN filtered_resources |->
                                 ExcelRow(filtered_resources[i],
                                          Or(tenant_id, Str(<<>>)))]]
    /\ UNCHANGED <<mode, guiVars, cliVars, lookupVars, cost, cost_display, cost_rendered,
                   resource_type, info, detVars, filterVars, tenant_id, delivered, clicks,
                   browser, clipboard, csv_rows>>

\* ---------------------------------------------- costs.py, COST_PRIORITY
\* The priority class of each resource kind (1: highest cost).
COST_PRIORITY ==
    ("ddos_plan" :> 1 @@ "vnet_gateway" :> 1 @@ "app_gateway" :> 1 @@
     "sql_elastic_pool" :> 1 @@ "app_service_plan" :> 1 @@ "nat_gateway" :> 2 @@
     "load_balancer" :> 2 @@ "disk" :> 2) @@
    ("private_endpoint" :> 3 @@ "public_ip" :> 3 @@ "traffic_manager" :> 3 @@
     "frontdoor_waf" :> 3 @@ "private_dns_zone" :> 3 @@ "vm" :> 3 @@ "nic" :> 4 @@
     "nsg" :> 4) @@
    ("route_table" :> 4 @@ "availability_set" :> 4 @@ "vnet" :> 4 @@
     "subnet" :> 4 @@ "ip_group" :> 4 @@ "resource_group" :> 4 @@
     "api_connection" :> 4 @@ "certificate" :> 4)

\* The resource kind of each detector: the kind whose estimate_<kind>_cost it
\* calls for its records (estimate_stopped_vm_cost for the VM detector).
ResourceKind ==
    ("detect_orphaned_ddos_plans" :> "ddos_plan" @@
     "detect_orphaned_app_gateways" :> "app_gateway" @@
     "detect_orphaned_vnet_gateways" :> "vnet_gateway" @@
     "detect_orphaned_sql_elastic_pools" :> "sql_elastic_pool" @@
     "detect_orphaned_app_service_plans" :> "app_service_plan" @@
     "detect_orphaned_nat_gateways" :> "nat_gateway" @@
     "detect_orphaned_load_balancers" :> "load_balancer" @@
     "detect_unattached_disks" :> "disk") @@
    ("detect_unused_public_ips" :> "public_ip" @@
     "detect_orphaned_traffic_managers" :> "traffic_manager" @@
     "detect_orphaned_frontdoor_waf_policies" :> "frontdoor_waf" @@
     "detect_orphaned_private_endpoints" :> "private_endpoint" @@
     "detect_stopped_vms" :> "vm" @@
     "detect_orphaned_nics" :> "nic" @@
     "detect_orphaned_nsgs" :> "nsg" @@
     "detect_orphaned_route_tables" :> "route_table") @@
    ("detect_orphaned_availability_sets" :> "availability_set" @@
     "detect_orphaned_ip_groups" :> "ip_group" @@
     "detect_orphaned_private_dns_zones" :> "private_dns_zone" @@
     "detect_empty_resource_groups" :> "resource_group" @@
     "detect_failed_api_connections" :> "api_connection" @@
     "detect_expired_certificates" :> "certificate")

\* The priority class of the detector at position k of the registry.
PriorityAt(k) == COST_PRIORITY[ResourceKind[ALL_DETECTORS[k]]]

\* ------------------------------------------- costs.py, SKU and tier lookups
\* The cost estimates that take a SKU or tier string.
SkuEstimators ==
    {"estimate_public_ip_cost", "estimate_disk_cost", "estimate_app_gateway_cost",
     "estimate_vnet_gateway_cost", "estimate_load_balancer_cost",
     "estimate_sql_elastic_pool_cost", "estimate_app_service_plan_cost"}

\* The estimates that also take a number (size, capacity, rules, eDTUs).
TakesNumber(f) ==
    f \in {"estimate_disk_cost", "estimate_app_gateway_cost",
           "estimate_load_balancer_cost", "estimate_sql_elastic_pool_cost"}

\* One call of estimate f with the SKU or tier string sku and the number n.
EstimateCall(f, sku, n, up) ==
    CASE f = "estimate_public_ip_cost" -> estimate_public_ip_cost(sku)
      [] f = "estimate_disk_cost" -> estimate_disk_cost(n, sku, up)
      [] f = "estimate_app_gateway_cost" -> estimate_app_gateway_cost(sku, n, up)
      [] f = "estimate_vnet_gateway_cost" -> estimate_vnet_gateway_cost(sku)
      [] f = "estimate_load_balancer_cost" -> estimate_load_balancer_cost(sku, n, up)
      [] f = "estimate_sql_elastic_pool_cost" ->
            estimate_sql_elastic_pool_cost(n, sku, up)
      [] f = "estimate_app_service_plan_cost" ->
            estimate_app_service_plan_cost(S("Basic"), sku)

\* Spellings of the SKUs and tiers each estimate names, with other letter
\* case and with '-' and '_' added, moved or left out, and strings it does
\* not name.
SkuSpellings ==
    "estimate_public_ip_cost" :>
        {"Standard", "standard", "STANDARD", "Stan-dard", "Standard_", "Basic",
         "basic", "Ba_sic", "Premium", ""} @@
    "estimate_disk_cost" :>
        {"Premium_LRS", "premium-lrs", "PREMIUMLRS", "Pre_mium_LRS",
         "StandardSSD_LRS", "Standard_SSD_LRS", "standardssd-zrs", "Standard_LRS",
         "standard-lrs", "UltraSSD_LRS"} @@
    "estimate_app_gateway_cost" :>
        {"WAF_v2", "waf-v2", "WAFv2", "W_AF_v2", "WAF", "waf", "Standard_v2",
         "standard-v2", "Standardv2", "Basic"} @@
    "estimate_vnet_gateway_cost" :>
        {"VpnGw1", "vpngw1", "Vpn-Gw1", "VPN_GW_1", "VpnGw2AZ", "vpngw2-az",
         "ErGw1AZ", "Basic", "HighPerformance", "High_Performance",
         "UltraPerformance", ""} @@
    "estimate_load_balancer_cost" :>
        {"Basic", "basic", "BASIC", "Ba-sic", "_basic", "Standard", "standard",
         "Gateway"} @@
    "estimate_sql_elastic_pool_cost" :>
        {"Basic", "basic", "Ba-sic", "Premium", "premium", "PREMIUM", "Pre_mium",
         "Standard", "GeneralPurpose", "General_Purpose"} @@
    "estimate_app_service_plan_cost" :>
        {"B1", "b1", "B-1", "P1v2", "p1_v2", "P1V2", "S1", "F1", "Free", "free",
         "I1v2", "Y1"}

SkuSamples(f) == {S(text) : text \in SkuSpellings[f]}

\* Disk sizes, capacities, rule counts and eDTUs.
NumberSamples == {1, 7, 50}

InitEstimate ==
    /\ mode = "estimate"
    /\ estimator \in SkuEstimators
    /\ sku_arg \in SkuSamples(estimator)
    /\ number_arg \in (IF TakesNumber(estimator) THEN NumberSamples ELSE {0})
    /\ estimated = [done |-> FALSE, cost |-> 0]

\* The call returns.
Estimate ==
    /\ mode = "estimate"
    /\ ~estimated.done
    /\ \E up \in BOOLEAN :
         estimated' = [done |-> TRUE,
                       cost |-> EstimateCall(estimator, sku_arg, number_arg, up)]
    /\ UNCHANGED <<mode, guiVars, cliVars, cost, cost_display, cost_rendered,
                   resource_type, info, detVars, gridVars, estimator, sku_arg,
                   number_arg>>

\* ---------------------------------------- grid: filter, sort, clear
\* What is typed into the search box.
SearchSamples == {<<>>, S("res"), S("nsg"), S("zzz")}

\* filter_map of App._on_risk_filter_change
RiskFilters == {Null, Str(S("low")), Str(S("medium")), Str(S("high"))}

\* The sort keys of the headers clicked: Cost/Mo and Safety.
SortColumns == {"cost", "risk_level"}

\* What the filter, sort and clear handlers leave alone.
opsFrame == <<mode, sessionVars, cliVars, lookupVars, cost, cost_display,
              cost_rendered, resource_type, info, detVars, tenant_id, delivered,
              clicks, browser, clipboard, csv_rows, xlsx_rows>>

InitGridOps ==
    /\ mode = "grid_ops"
    /\ AppInit
    /\ ScannerInit
    /\ rg_client = TRUE
    /\ FormatCostIdle
    /\ ResourceInfoIdle
    /\ DetectIdle
    /\ LookupIdle
    /\ GridIdle

\* App._on_search -> ResourceGrid.filter(search_text)
Filter ==
    /\ mode = "grid_ops"
    /\ \E text \in SearchSamples :
         /\ search_text' = text
         /\ filtered_resources' =
                ApplyAllFilters(resources, risk_filter, text, sort_column,
                                sort_reverse)
    /\ UNCHANGED <<opsFrame, resources, risk_filter, sort_column, sort_reverse>>

\* App._on_risk_filter_change -> ResourceGrid.filter_by_risk(risk_level)
FilterByRisk ==
    /\ mode = "grid_ops"
    /\ \E risk_level \in RiskFilters :
         /\ risk_filter' = risk_level
         /\ filtered_resources' =
                ApplyAllFilters(resources, risk_level, search_text, sort_column,
                                sort_reverse)
    /\ UNCHANGED <<opsFrame, resources, search_text, sort_column, sort_reverse>>

\* ResourceGrid._on_header_click(column_name)
OnHeaderClick ==
    /\ mode = "grid_ops"
    /\ \E key \in SortColumns :
         /\ sort_column' = key
         /\ sort_reverse' = IF sort_column = key THEN ~sort_reverse ELSE FALSE
         /\ filtered_resources' =
                Sorted(filtered_resources, key,
                       IF sort_column = key THEN ~sort_reverse ELSE FALSE)
    /\ UNCHANGED <<opsFrame, resources, risk_filter, search_text>>

\* ResourceGrid.clear (App._start_scan, App._on_subscription_change)
Clear ==
    /\ mode = "grid_ops"
    /\ resources # <<>>
    /\ resources' = <<>>
    /\ filtered_resources' = <<>>
    /\ UNCHANGED <<opsFrame, filterVars>>

\* ===================================================== function calls
\* One call of one of the program's pure functions, on an argument drawn
\* from its sample set; the App and the scanner stay as constructed.
InitFn ==
    /\ AppInit
    /\ ScannerInit
    /\ rg_client = TRUE
    /\ DetectIdle
    /\ GridIdle
    /\ \/ InitFormatCost /\ ResourceInfoIdle /\ LookupIdle
       \/ InitResourceInfo /\ FormatCostIdle /\ LookupIdle
       \/ InitEstimate /\ FormatCostIdle /\ ResourceInfoIdle

NextFn ==
    \/ FormatCost
    \/ GetResourceInfo
    \/ Estimate

SpecFn == InitFn /\ [][NextFn]_vars

InitDetect ==
    /\ mode = "detect"
    /\ AppInit
    /\ ScannerInit
    /\ rg_client = TRUE
    /\ FormatCostIdle
    /\ ResourceInfoIdle
    /\ GridIdle
    /\ LookupIdle
    /\ detector \in Range(ALL_DETECTORS)
    /\ results \in SampleResults(detector)
    /\ detected = <<>>
    /\ det_pc = "call"

\* results = query_func(QUERY); the loop; return resources
Detect ==
    /\ mode = "detect"
    /\ det_pc = "call"
    /\ \E up \in BOOLEAN :
       \E days \in (IF ReadsClock(detector) THEN DaysSamples ELSE {0}) :
         LET call == DetectorLoop(detector, results, up, days)
         IN /\ det_pc' = IF call.raised THEN "raised" ELSE "returned"
            /\ detected' = call.resources
    /\ UNCHANGED <<mode, guiVars, cliVars, lookupVars, cost, cost_display, cost_rendered,
                   resource_type, info, detector, results, gridVars>>

NextDetect == Detect

SpecDetect == InitDetect /\ [][NextDetect]_vars

NextGrid ==
    \/ AddResources
    \/ OpenResource
    \/ CopyUrl
    \/ ExportCsv
    \/ ExportExcel

SpecGrid == InitGrid /\ [][NextGrid]_vars

NextGridOps ==
    \/ AddResources
    \/ Filter
    \/ FilterByRisk
    \/ OnHeaderClick
    \/ Clear

SpecGridOps == InitGridOps /\ [][NextGridOps]_vars

\* ------------------------------------------------------------------ C16
\* C16: format_cost picks one of four forms by the cost's value ("$0" for
\* zero, two decimals below 100, a plain integer from 100 to 999, an integer
\* with thousands separators from 1000 up), gives "$0", "$3.65", "$150" and
\* "$2,944" for 0, 3.65, 150 and 2944, and the number it prints lies in the
\* band of the form it is printed in.
C16_FormatCostBands ==
    (mode = "format_cost" /\ cost_rendered.form # "none") =>
        /\ cost_rendered.form =
               (IF cost = 0 THEN "zero"
                ELSE IF cost < Dollars(100) THEN "decimal"
                ELSE IF cost < Dollars(1000) THEN "integer"
                ELSE "grouped")
        /\ cost = 0 => cost_display = "$0"
        /\ cost = 3650 => cost_display = "$3.65"
        /\ cost = Dollars(150) => cost_display = "$150"
        /\ cost = Dollars(2944) => cost_display = "$2,944"
        /\ cost_rendered.form = "decimal" => cost_rendered.value < Dollars(100)
        /\ cost_rendered.form = "integer" =>
               /\ cost_rendered.value >= Dollars(100)
               /\ cost_rendered.value < Dollars(1000)
        /\ cost_rendered.form = "grouped" => cost_rendered.value >= Dollars(1000)

\* ------------------------------------------------------------------ C18
\* Every field of a catalog record holds text.
Populated(r) ==
    /\ DOMAIN r = {"friendly_name", "risk_level", "description", "why_orphaned",
                   "safe_to_delete", "check_before_delete", "deletion_impact",
                   "recovery_info"}
    /\ r.friendly_name # <<>>
    /\ \A f \in DOMAIN r \ {"friendly_name"} : r[f] # ""

\* name is the part of t after its last "/", with every letter in upper
\* case when no letter precedes it and in lower case otherwise.
IsTitleOfLastSegment(name, t) ==
    LET n == Len(name)
        off == Len(t) - n
    IN /\ off >= 0
       /\ off > 0 => t[off] = "/"
       /\ \A i \in 1..n :
            /\ t[off + i] # "/"
            /\ name[i] = (IF i > 1 /\ IsLetter(t[off + i - 1])
                          THEN LowerChar(t[off + i]) ELSE UpperChar(t[off + i]))

\* C18: catalog lookup is case-insensitive and total: a type that spells a
\* catalog key in any letter case gets that key's record, every field
\* populated; any other type gets a default record with risk medium, the
\* generic description and the title-cased last path segment as friendly name.
C18_CatalogLookup ==
    (mode = "get_resource_info" /\ info # NoInfo) =>
        /\ \A k \in DOMAIN RESOURCE_INFO :
             Upper(resource_type) = Upper(S(k)) =>
                 /\ info = RESOURCE_INFO[k]
                 /\ Populated(info)
        /\ (\A k \in DOMAIN RESOURCE_INFO : Upper(resource_type) # Upper(S(k))) =>
                 /\ info.risk_level = "medium"
                 /\ info.description = "Azure resource."
                 /\ IsTitleOfLastSegment(info.friendly_name, resource_type)
                 /\ DOMAIN info = DOMAIN NoInfo

\* A catalog key given in upper case has been looked up.
C18_Witness ==
    /\ mode = "get_resource_info"
    /\ resource_type = Upper(S("microsoft.network/virtualnetworkgateways"))
    /\ info.risk_level = "high"
    /\ info.friendly_name = S("VNet Gateway")

\* ------------------------------------------------------------------ C12
\* What each detector documents for a row that gives it nothing: the cost
\* of its default arguments and the fragments it always writes.
DefaultRecord ==
    "detect_orphaned_ddos_plans" :>
        [cost |-> 2944000, details |-> S("No protected VNets | HIGH COST")] @@
    "detect_orphaned_app_gateways" :>
        [cost |-> 194180,
         details |-> S("Tier: Standard_v2 | Capacity: 2 | Empty backend pools")] @@
    "detect_orphaned_vnet_gateways" :>
        [cost |-> 140000, details |-> S("Type: Vpn | SKU: VpnGw1 | No connections")] @@
    "detect_orphaned_sql_elastic_pools" :>
        [cost |-> 821250,
         details |-> S("SKU: StandardPool | Tier: Standard | 50 eDTU | No databases")] @@
    "detect_orphaned_app_service_plans" :>
        [cost |-> 55000, details |-> S("SKU: B1 | No apps")] @@
    "detect_orphaned_nat_gateways" :>
        [cost |-> 32850, details |-> S("Idle: 4min | Not attached to subnet")] @@
    "detect_orphaned_load_balancers" :>
        [cost |-> 18250, details |-> S("SKU: Standard | Empty backend")] @@
    "detect_unattached_disks" :> [cost |-> 0, details |-> S("0 GB")] @@
    "detect_unused_public_ips" :> [cost |-> 3650, details |-> S("SKU: Basic")] @@
    "detect_orphaned_traffic_managers" :>
        [cost |-> 0, details |-> S("No endpoints")] @@
    "detect_orphaned_frontdoor_waf_policies" :>
        [cost |-> 5000, details |-> S("Not linked")] @@
    "detect_orphaned_private_endpoints" :>
        [cost |-> 7300, details |-> S("State: Disconnected")] @@
    "detect_stopped_vms" :> [cost |-> 10000, details |-> S("Deallocated")] @@
    "detect_orphaned_nics" :> [cost |-> 0, details |-> S("No Public IP")] @@
    "detect_orphaned_nsgs" :>
        [cost |-> 0, details |-> S("No custom rules | Not attached")] @@
    "detect_orphaned_route_tables" :>
        [cost |-> 0, details |-> S("No routes | Not attached")] @@
    "detect_orphaned_availability_sets" :>
        [cost |-> 0, details |-> S("SKU: Classic | FD: 2 | UD: 5 | No VMs")] @@
    "detect_orphaned_ip_groups" :>
        [cost |-> 0, details |-> S("Empty | No firewall associations")] @@
    "detect_orphaned_private_dns_zones" :>
        [cost |-> 500, details |-> S("No records | No VNet links")] @@
    "detect_empty_resource_groups" :> [cost |-> 0, details |-> S("Empty")] @@
    "detect_failed_api_connections" :>
        [cost |-> 0, details |-> S("Status: Error")] @@
    "detect_expired_certificates" :>
        [cost |-> 0, details |-> S("Expired certificate")]

\* Every field the detector's cost and details draw on is missing from
\* every row of the result.
OptionalFieldsMissing ==
    \A i \in DOMAIN results :
        DOMAIN results[i] \cap DOMAIN OwnFields(detector) = {}

\* C12: a detector called on rows in which every optional field is missing
\* returns a list (empty for no rows) with exactly one record per row, each
\* with the detector's default cost (0 where it has none) and with details
\* made of the detector's unconditional fragments only.
C12_BareRows ==
    (det_pc # "call" /\ det_pc # "idle" /\ OptionalFieldsMissing) =>
        /\ det_pc = "returned"
        /\ Len(detected) = Len(results)
        /\ \A i \in DOMAIN detected :
              /\ detected[i].cost = DefaultRecord[detector].cost
              /\ detected[i].details = DefaultRecord[detector].details
              /\ detected[i].id = Get(results[i], "id", Str(<<>>))

\* A detector with a default cost has returned two records for two bare rows.
C12_Witness ==
    /\ det_pc = "returned"
    /\ OptionalFieldsMissing
    /\ Len(results) = 2
    /\ Len(detected) = 2
    /\ detected[2].cost > 0

\* A detector has returned the empty list for no rows.
C12_WitnessEmpty ==
    /\ det_pc = "returned"
    /\ results = <<>>
    /\ detected = <<>>

\* ------------------------------------------------------------------ C13
\* Every field a row of the result holds, beside the ones that are passed
\* through untouched, is null.
PresentFieldsNull ==
    \A i \in DOMAIN results :
        \A k \in DOMAIN results[i] :
            \/ IsNull(results[i][k])
            \/ k \in {"id", "resourceGroup", "location", "subscriptionId"}

\* C13: a detector called on rows whose fields are absent or null does not
\* raise; it returns one record for every row of the result.
C13_NullFieldsTolerated ==
    (det_pc \in {"returned", "raised"} /\ PresentFieldsNull) =>
        /\ det_pc = "returned"
        /\ Len(detected) = Len(results)

\* ------------------------------------------------------------------ C14
\* C14: every record a detector returns has a risk level among low, medium
\* and high, and it is the one the catalog's table holds under the record's
\* type, which is the same for every record of the call, whatever the rows
\* hold.
C14_RiskLevelFromCatalog ==
    det_pc = "returned" =>
        \A i \in DOMAIN detected :
            /\ detected[i].risk_level \in {RISK_LOW, RISK_MEDIUM, RISK_HIGH}
            /\ \E k \in DOMAIN RESOURCE_INFO :
                  /\ S(k) = detected[i].type
                  /\ detected[i].risk_level = RESOURCE_INFO[k].risk_level
            /\ detected[i].type = detected[1].type

\* A detector has returned a high-risk record for a row that holds fields
\* of its own.
C14_Witness ==
    /\ det_pc = "returned"
    /\ Len(detected) = 1
    /\ DOMAIN results[1] \cap DOMAIN OwnFields(detector) # {}
    /\ detected[1].risk_level = RISK_HIGH

\* ------------------------------------------------------------------ C15
\* C15: the cost of every record a detector returns is at least 0, whatever
\* SKU or tier string and whatever capacity, size, rule count or DTU number
\* the row holds or lacks.
C15_CostNonNegative ==
    det_pc = "returned" => \A i \in DOMAIN detected : detected[i].cost >= 0

\* ------------------------------------------------------------------ C17
\* The row of the specification's example.
AppServicePlanExample ==
    "sku" :> T("B1") @@ "tier" :> T("Basic") @@ "size" :> T("B1")
    @@ "capacity" :> Num(2) @@ "kind" :> T("app,linux")

\* The number of instances a row counts for: its capacity, or 1 when the
\* capacity is missing, null or 0.
Instances(row) ==
    IF "capacity" \notin DOMAIN row \/ IsNull(row["capacity"])
       \/ row["capacity"] = Num(0)
    THEN 1
    ELSE row["capacity"].v

\* What a row gives for a field that is missing, null or empty.
FieldOr(row, key, default) ==
    IF key \in DOMAIN row /\ IsStr(row[key]) /\ row[key].v # <<>>
    THEN row[key].v
    ELSE default

\* C17: the App Service Plan detector sets cost to the table rate of the
\* size times the instances and writes the details as the OS kind (if
\* any), "SKU: <sku>", "<n> instances" (only when n > 1) and "No apps", in
\* this order; the example row gives 110.0 and
\* "Linux | SKU: B1 | 2 instances | No apps".
C17_AppServicePlan ==
    (detector = "detect_orphaned_app_service_plans" /\ det_pc = "returned") =>
        \A i \in DOMAIN detected :
            LET row == results[i]
                n == Instances(row)
                rate == Lookup(AppServicePlanSkuCosts,
                               Normalized(FieldOr(row, "size", S("B1"))), 73000)
                kind == Lower(FieldOr(row, "kind", <<>>))
                os == IF Contains(S("linux"), kind) THEN S("Linux | ")
                      ELSE IF Contains(S("windows"), kind) THEN S("Windows | ")
                      ELSE IF Contains(S("functionapp"), kind) THEN S("Functions | ")
                      ELSE <<>>
                instances == IF n > 1 THEN DigitsOf(n) \o S(" instances | ") ELSE <<>>
            IN /\ detected[i].cost = rate * n
               /\ detected[i].details =
                     os \o S("SKU: ") \o FieldOr(row, "sku", S("B1")) \o S(" | ")
                     \o instances \o S("No apps")
               /\ row = AppServicePlanExample =>
                     /\ detected[i].cost = Dollars(110)
                     /\ detected[i].details =
                           S("Linux | SKU: B1 | 2 instances | No apps")

\* The detector has returned the record of the example row.
C17_Witness ==
    /\ detector = "detect_orphaned_app_service_plans"
    /\ det_pc = "returned"
    /\ results = <<AppServicePlanExample>>
    /\ Len(detected) = 1
    /\ detected[1].cost = Dollars(110)

\* ------------------------------------------------------------------ C19
\* The id of a record: row k of detector i's query is the same Azure
\* resource, with the same id, in every scan of the session.
IdOf(record) == <<record.det, record.row>>

\* C19: no two records of the displayed aggregate carry the same id,
\* whether the scan that filled it completed, was cancelled or was
\* restarted.
C19_UniqueIds ==
    \A i, j \in DOMAIN resources :
        i # j => IdOf(resources[i]) # IdOf(resources[j])

\* ---------------------------------------------------------------- C20
\* A record has a portal link when its id and the tenant id are both
\* present and non-empty.
HasLink(record) ==
    /\ record.id \notin {Null, Str(<<>>)}
    /\ tenant_id \notin {Null, Str(<<>>)}

OpenWithLink(click) == click.button = "Open" /\ HasLink(click.resource)

CopyWithLink(click) == click.button = "Copy" /\ HasLink(click.resource)

\* The exported rows stand for the records in order, each with its id and,
\* for a record without a portal link, an empty portal URL.
ExportedFrom(rows, records, with_id) ==
    /\ Len(rows) = Len(records)
    /\ \A i \in DOMAIN rows :
         /\ with_id => rows[i].resource_id = Cell(records[i].id)
         /\ rows[i].details = records[i].details
         /\ ~HasLink(records[i]) => rows[i].portal_url = <<>>

\* C20: a record whose id is absent or empty is still kept, displayed and
\* exported, with an empty portal URL, and its Open and Copy buttons do
\* nothing: the browser is opened only by Open clicks on records that have a
\* portal link, the clipboard changes only by such Copy clicks; the same
\* holds for every record when the tenant id is absent or empty.
C20_IdlessRecord ==
    /\ [](/\ resources = delivered
          /\ filtered_resources = delivered
          /\ Len(browser) = Len(SelectSeq(clicks, OpenWithLink))
          /\ SelectSeq(clicks, CopyWithLink) = <<>> => clipboard = ClipboardBefore)
    /\ [][/\ csv_rows'.written /\ ~csv_rows.written
             => ExportedFrom(csv_rows'.rows, delivered, TRUE)
          /\ xlsx_rows'.written /\ ~xlsx_rows.written
             => ExportedFrom(xlsx_rows'.rows, delivered, FALSE)]_vars

\* Both buttons were clicked on a kept and displayed record without an id
\* while a tenant is signed in, and both exports wrote it with an empty
\* portal URL: no browser was opened, the clipboard is as before.
C20_Witness ==
    /\ Truthy(tenant_id)
    /\ Len(clicks) = 2
    /\ clicks[1].button = "Open" /\ clicks[2].button = "Copy"
    /\ \A i \in 1..2 : clicks[i].resource.id \in {Null, Str(<<>>)}
    /\ \E i \in DOMAIN filtered_resources : filtered_resources[i] = clicks[1].resource
    /\ csv_rows.written /\ xlsx_rows.written
    /\ \E i \in DOMAIN csv_rows.rows :
         csv_rows.rows[i].resource_id = <<>> /\ csv_rows.rows[i].portal_url = <<>>
    /\ browser = <<>>
    /\ clipboard = ClipboardBefore

\* The same with a record that has an id while the tenant id is empty.
C20_WitnessNoTenant ==
    /\ tenant_id = Str(<<>>)
    /\ Len(clicks) = 2
    /\ clicks[1].button = "Open" /\ clicks[2].button = "Copy"
    /\ \A i \in 1..2 : Truthy(clicks[i].resource.id)
    /\ csv_rows.written
    /\ \E i \in DOMAIN csv_rows.rows :
         csv_rows.rows[i].resource_id # <<>> /\ csv_rows.rows[i].portal_url = <<>>
    /\ browser = <<>>
    /\ clipboard = ClipboardBefore

\* ------------------------------------------------------------------ C21
\* Detector i is invoked in an orderly way given the outcomes o of a scan:
\* every earlier registry entry has returned or raised, and neither i nor
\* any later entry has been invoked before.
InOrder(o, i) ==
    /\ \A j \in Detectors : j < i => o[j].kind \in {"raise", "rows"}
    /\ \A j \in Detectors : j >= i => o[j] = Pending

\* C21: within a scan the detectors run one at a time in registry order: at
\* the moment a scan (a GUI worker, or AzureScanner.scan) invokes a detector,
\* all earlier registry entries have returned or raised and the invoked one
\* and the later ones have not been invoked in that scan.
C21_SequentialRegistryOrder ==
    [][/\ \A s \in Scans :
            (pc'[s] = "call" /\ pc[s] # "call") => InOrder(out[s], idx'[s])
       /\ (scan_pc' = "call" /\ scan_pc # "call") => InOrder(scan_out, scan_idx')]_vars

\* C21 witness: a worker is inside the call of the last registry entry after
\* the first one raised; AzureScanner.scan likewise.
C21_Witness ==
    \/ \E s \in Scans :
         /\ pc[s] = "call" /\ idx[s] = NumDetectors
         /\ out[s][1] = Raised
         /\ Count(sent[s], "log_scanning", 1) = 1
         /\ Count(sent[s], "log_scanning", NumDetectors) = 1
    \/ /\ scan_pc = "call" /\ scan_idx = NumDetectors
       /\ scan_out[1] = Raised

\* ------------------------------------------------------------------ C22
\* C22: the registry is ordered by descending cost priority: no detector
\* listed before the one being called has a priority class of a greater
\* number than it (walking the registry, the class never decreases).
C22_RegistryByPriority ==
    \A j \in DOMAIN ALL_DETECTORS :
        ALL_DETECTORS[j] = detector =>
            \A i \in 1..(j - 1) : PriorityAt(i) <= PriorityAt(j)

\* ------------------------------------------------------------------ C23
NotDelimiter(c) == c \notin {"-", "_"}

\* A SKU or tier string with its letters in lower case and its '-' and '_'
\* left out: two strings that differ only in letter case or in these
\* delimiters fold to the same string.
Fold(sku) == SelectSeq(Lower(sku), NotDelimiter)

\* C23: a cost estimate that looks up a SKU or tier string gives the cost it
\* returned for a string to every string that differs from it only in letter
\* case or in '-' and '_' delimiters.
C23_DelimiterInsensitiveLookup ==
    estimated.done =>
        \A other \in SkuSamples(estimator) :
            Fold(other) = Fold(sku_arg) =>
                \E up \in BOOLEAN :
                    EstimateCall(estimator, other, number_arg, up) = estimated.cost

\* ------------------------------------------------------------------ C24
\* How often a record occurs in a list.
Occurrences(list, r) == Cardinality({k \in DOMAIN list : list[k] = r})

\* A record matches the active risk filter and the active search text.
MatchesActiveFilters(r) ==
    /\ risk_filter # Null => Str(S(r.risk_level)) = risk_filter
    /\ search_text # <<>> =>
          \E field \in {r.name.v, r.type_display, r.resource_group.v, r.location.v} :
              Contains(Lower(search_text), Lower(field))

\* C24: the displayed list holds exactly the records of the grid that match
\* the active risk filter and the active search text, each as often as the
\* grid holds it, after any sequence of deliveries, filter changes, header
\* clicks and clears.
C24_DisplayedMatchesFilters ==
    \A r \in Range(resources) \union Range(filtered_resources) :
        Occurrences(filtered_resources, r) =
            IF MatchesActiveFilters(r) THEN Occurrences(resources, r) ELSE 0

\* ------------------------------------------------------------------ C25
\* C25: every record the grid shows was returned by a query that ran against
\* the subscription now selected in the scanner.
C25_RecordsOfSelectedSubscription ==
    \A r \in Range(resources) : queried[r.scan][r.det] = subscription_id

\* ------------------------------------------------------------------ C26
\* The records of detector i of scan s that the grid holds.
Shown(s, i) == {k \in DOMAIN resources : resources[k].scan = s /\ resources[k].det = i}

\* Scan s was cancelled while its detector i was in flight.
CancelledInFlight(s, i) == cancel_at[s].inflight /\ cancel_at[s].idx = i

\* The grid holds all the records of a detector call or none of them.
AllOrNone(s, i) == Cardinality(Shown(s, i)) \in {0, out[s][i].n}

\* C26: the grid holds either all records of a detector call or none of
\* them, and none when the detector raised or when the scan was cancelled
\* while that detector was in flight.
C26_AtomicBatches ==
    \A s \in Scans, i \in Detectors :
        /\ AllOrNone(s, i)
        /\ (out[s][i] = Raised \/ CancelledInFlight(s, i)) => Shown(s, i) = {}

\* ------------------------------------------------------------------ C27
\* The export button is enabled only with no scan running and a non-empty
\* grid.
ExportEnabledOnlyIdleNonEmpty ==
    export_btn = "normal" => ~is_scanning /\ resources # <<>>

\* A step that starts a scan or switches the subscription leaves the button
\* disabled; a step that enables it is the completion of the running scan
\* with at least one record in the grid (so the button stays disabled after a
\* cancelled or failed scan until a later scan completes).
ExportSteps ==
    /\ (nscans' # nscans \/ subscription_id' # subscription_id)
          => export_btn' = "disabled"
    /\ (export_btn' = "normal" /\ export_btn # "normal")
          => /\ ScanStatus = "Running"
             /\ ScanStatus' = "Completed"
             /\ resources' # <<>>

\* C27: the export button is enabled only while no scan is running and the
\* grid is non-empty; it is disabled when a scan starts and on subscription
\* change, is enabled only by the completion of a scan that found a record,
\* and stays disabled after a cancelled or failed scan.
C27_ExportButton == []ExportEnabledOnlyIdleNonEmpty /\ [][ExportSteps]_vars

\* ------------------------------------------------------------------ C28
\* Once a scan has ended the scanning flag is false and the action button
\* offers a new scan.
EndedScanCanRestart ==
    ScanStatus \in {"Completed", "Cancelled", "Failed"} =>
        ~is_scanning /\ action_btn \in {"Rescan", "Retry"}

RunningScanKeepsSubscription ==
    is_scanning =>
        /\ subscription_id' = subscription_id
        /\ timers' <= timers
        /\ nscans' = nscans
        /\ IsPrefix(resources, resources')

\* A scan is scheduled only by a step that changes the scanner's
\* subscription: choosing the active subscription schedules none.
ScheduledOnlyByChange == timers' > timers => subscription_id' # subscription_id

\* Once a subscription is active, the grid is emptied only by a scan start
\* or by a change to another subscription.
ClearedOnlyByStartOrChange ==
    (subscription_id # "" /\ resources # <<>> /\ resources' = <<>>) =>
        \/ nscans' = nscans + 1
        \/ subscription_id' # subscription_id

\* C29: a subscription change requested while a scan is running (the scan
\* state machine is in Running, _is_scanning set) changes nothing: the
\* scanner's subscription, the grid and the running scan stay as they are
\* and no scan is scheduled; choosing the active subscription while idle
\* changes nothing and schedules no scan either.
C29_ChangeRejectedWhileScanning ==
    /\ [](is_scanning => ScanStatus = "Running")
    /\ [][/\ RunningScanKeepsSubscription
          /\ ScheduledOnlyByChange
          /\ ClearedOnlyByStartOrChange]_vars

\* A scan of the second subscription is running with records in the grid,
\* the dropdown offering the first one: the change was accepted while idle
\* and a request made now is rejected.
C29_Witness ==
    /\ is_scanning
    /\ ScanStatus = "Running"
    /\ subscription_id = "sub-b"
    /\ nscans = 2
    /\ resources # <<>>
    /\ \E selected \in Subs : selected # subscription_id

\* ------------------------------------------------------------------ C30
\* A list of records without the mark of the scan that produced them.
Untagged(list) == [k \in DOMAIN list |-> [det |-> list[k].det, row |-> list[k].row]]

\* The list of a scan whose detectors did what o says: the returned lists in
\* registry order, nothing for a detector that raised or returned None.
ScanList(o) == Untagged(Concat(0, o, NumDetectors))

\* The main loop runs a scan's _scan_complete.
GuiScanCompletes ==
    /\ queue # <<>>
    /\ Head(queue).kind = "complete"
    /\ queue' = Tail(queue)

\* C30: without cancellation the GUI scan loop and AzureScanner.scan give
\* the same aggregate for the same detector outcomes: the list
\* AzureScanner.scan returns and the records the grid holds when the GUI scan
\* completes are both the list of the outcomes of the scan's detectors, in
\* content and order.
C30_GuiScanEqualsScannerScan ==
    /\ [](scan_pc = "done" => Untagged(all_resources) = ScanList(scan_out))
    /\ [][(NoCancel /\ GuiScanCompletes) =>
             /\ Head(queue).scan = nscans
             /\ ScanStatus' = "Completed"
             /\ Untagged(resources') = ScanList(out[nscans])]_vars

\* A second scan of a session without cancellation has completed: its first
\* detector returned a record, its last one none (or None), and the grid
\* shows the one record.
C30_Witness ==
    /\ NoCancel
    /\ nscans = 2
    /\ ScanStatus = "Completed"
    /\ queue = <<>>
    /\ out[2][1] = Returned(1)
    /\ out[2][NumDetectors] = Returned(0)
    /\ Untagged(resources) = ScanList(out[2])
    /\ Len(resources) = 1

=============================================================================
